---------------------------- MODULE Spec2Model ----------------------------
(***************************************************************************)
(* Verification model of the moomoo 5-sleeve CPPI options bot:             *)
(*   - the CPPI policy engine            (cppi.ts)                          *)
(*   - the live orchestration            (main-cppi.ts, unnamed/part_004)   *)
(*   - the CPPI demo loop                (unnamed/part_000)                 *)
(*   - the backtesting engine            (backtest.ts, unnamed/part_007)    *)
(*                                                                         *)
(* JavaScript numbers are modelled as exact rationals n/d extended with    *)
(* the IEEE special values: 1/0 is +Infinity, -1/0 is -Infinity and 0/0 is *)
(* NaN.  Rounding of doubles (relative error 2^-53) is not modelled; the   *)
(* sign of zero is not modelled.                                           *)
(***************************************************************************)
EXTENDS Integers, Sequences, FiniteSets, TLC

(***************************************************************************)
(* Bounds of the model.                                                    *)
(***************************************************************************)
MaxWeek == 6

(***************************************************************************)
(* Numbers.                                                                *)
(***************************************************************************)
Abs(x) == IF x < 0 THEN -x ELSE x

Sign(x) == IF x < 0 THEN -1 ELSE IF x > 0 THEN 1 ELSE 0

RECURSIVE GCD(_, _)
GCD(a, b) == IF b = 0 THEN a ELSE GCD(b, a % b)

Norm(n, d) ==
  IF d = 0 THEN [n |-> Sign(n), d |-> 0]
  ELSE LET g == GCD(Abs(n), Abs(d))
       IN  [n |-> Sign(d) * (n \div g), d |-> Abs(d) \div g]

Num(i) == [n |-> i, d |-> 1]

Frac(n, d) == Norm(n, d)

NaN == [n |-> 0, d |-> 0]

IsNaN(a) == a.d = 0 /\ a.n = 0

IsFinite(a) == a.d # 0

fNeg(a) == [n |-> -a.n, d |-> a.d]

fAdd(a, b) ==
  IF a.d = 0 /\ b.d = 0 THEN (IF a.n = b.n THEN a ELSE NaN)
  ELSE IF a.d = 0 THEN a
  ELSE IF b.d = 0 THEN b
  ELSE LET g == GCD(a.d, b.d)
       IN  Norm(a.n * (b.d \div g) + b.n * (a.d \div g), (a.d \div g) * b.d)

fSub(a, b) == fAdd(a, fNeg(b))

fMul(a, b) ==
  IF a.d = 0 \/ b.d = 0 THEN Norm(a.n * b.n, a.d * b.d)
  ELSE LET g1 == GCD(Abs(a.n), b.d)
           g2 == GCD(Abs(b.n), a.d)
       IN  [n |-> (a.n \div g1) * (b.n \div g2),
            d |-> (a.d \div g2) * (b.d \div g1)]

fInv(b) == Norm(b.d, b.n)

fDiv(a, b) == fMul(a, fInv(b))

Rank(a) == IF a.d = 0 THEN a.n ELSE 0

fLt(a, b) ==
  /\ ~IsNaN(a)
  /\ ~IsNaN(b)
  /\ \/ Rank(a) < Rank(b)
     \/ Rank(a) = 0 /\ Rank(b) = 0 /\ a.d # 0 /\ b.d # 0
          /\ LET g == GCD(a.d, b.d)
             IN  a.n * (b.d \div g) < b.n * (a.d \div g)

fGt(a, b) == fLt(b, a)

fLe(a, b) == ~IsNaN(a) /\ ~IsNaN(b) /\ ~fLt(b, a)

fGe(a, b) == fLe(b, a)

MathMax(a, b) == IF IsNaN(a) \/ IsNaN(b) THEN NaN ELSE IF fLt(a, b) THEN b ELSE a

MathMin(a, b) == IF IsNaN(a) \/ IsNaN(b) THEN NaN ELSE IF fLt(b, a) THEN b ELSE a

MathAbs(a) == [n |-> Abs(a.n), d |-> a.d]

Zero == Num(0)

\* An absent value (no file, undefined).
Null == [null |-> TRUE]

One == Num(1)

Tolerance == Frac(1, 1000000)

Near(a, b) == fLe(MathAbs(fSub(a, b)), Tolerance)

(***************************************************************************)
(* cppi.ts: configuration.                                                 *)
(***************************************************************************)
Sleeves == {"debit", "credit", "straddle", "collar", "hedge"}

createDefaultCPPIConfig ==
  [ floorPct            |-> Frac(85, 100),
    cppiM               |-> Num(4),
    riskScaleOptions    |-> Frac(125, 100),
    riskySplit          |-> [debit |-> Frac(60, 100), credit |-> Frac(15, 100),
                             straddle |-> Frac(25, 100), hedgeFixed |-> Frac(2, 100)],
    driftBandAbs        |-> Frac(10, 100),
    rebalanceEveryWeeks |-> 4,
    weeklyDeposit       |-> Num(50),
    baseRiskPct         |-> [debit |-> Frac(6, 100), credit |-> Frac(2, 100),
                             straddle |-> Frac(4, 100), hedge |-> Frac(1, 100)],
    minTickets          |-> [debit |-> Num(30), creditMaxLoss |-> Num(100),
                             straddle |-> Num(50), hedge |-> Num(5)] ]

config == createDefaultCPPIConfig

InitialInvested == 10000

SumWeights(w) ==
  fAdd(fAdd(fAdd(fAdd(w.debit, w.credit), w.straddle), w.collar), w.hedge)

(***************************************************************************)
(* cppi.ts: the engine's computations.  A date is the number of days       *)
(* between the engine's startDate and currentDate.                         *)
(***************************************************************************)
getWeeksSinceStart(day) == day \div 7

computeInvestedToDate(day) ==
  fAdd(Num(InitialInvested), fMul(config.weeklyDeposit, Num(getWeeksSinceStart(day))))

computeTargetWeights_unclampedCollar(riskyWeight) ==
  LET riskyDebit    == fMul(riskyWeight, config.riskySplit.debit)
      riskyCredit   == fMul(riskyWeight, config.riskySplit.credit)
      riskyStraddle == fMul(riskyWeight, config.riskySplit.straddle)
      fixedHedge    == config.riskySplit.hedgeFixed
      collar        == fSub(fSub(fSub(fSub(One, riskyDebit), riskyCredit),
                                 riskyStraddle), fixedHedge)
  IN  [debit |-> riskyDebit, credit |-> riskyCredit, straddle |-> riskyStraddle,
       collar |-> collar, hedge |-> fixedHedge]

computeTargetWeights(riskyWeight) ==
  LET riskyDebit    == fMul(riskyWeight, config.riskySplit.debit)
      riskyCredit   == fMul(riskyWeight, config.riskySplit.credit)
      riskyStraddle == fMul(riskyWeight, config.riskySplit.straddle)
      fixedHedge    == config.riskySplit.hedgeFixed
      collar        == MathMax(Zero,
                         fSub(fSub(fSub(fSub(One, riskyDebit), riskyCredit),
                                   riskyStraddle), fixedHedge))
  IN  [debit |-> riskyDebit, credit |-> riskyCredit, straddle |-> riskyStraddle,
       collar |-> collar, hedge |-> fixedHedge]

computeCurrentWeights(sleeveEquities) ==
  IF fLe(sleeveEquities.total, Zero)
  THEN [s \in Sleeves |-> Zero]
  ELSE [s \in Sleeves |-> fDiv(sleeveEquities[s], sleeveEquities.total)]

shouldRebalance_inclusiveCadence(lrw, targetWeights, currentWeights, weeksSinceStart) ==
  IF weeksSinceStart <= lrw + config.rebalanceEveryWeeks
  THEN FALSE
  ELSE \E sleeve \in Sleeves :
         fGt(MathAbs(fSub(currentWeights[sleeve], targetWeights[sleeve])),
             config.driftBandAbs)

shouldRebalance(lrw, targetWeights, currentWeights, weeksSinceStart) ==
  IF weeksSinceStart < lrw + config.rebalanceEveryWeeks
  THEN FALSE
  ELSE \E sleeve \in Sleeves :
         fGt(MathAbs(fSub(currentWeights[sleeve], targetWeights[sleeve])),
             config.driftBandAbs)

computeCPPIMetrics_unclampedCushion(lrw, sleeveEquities, day) ==
  LET weeksSinceStart == getWeeksSinceStart(day)
      investedToDate  == computeInvestedToDate(day)
      floor           == fMul(config.floorPct, investedToDate)
      cushion         == fSub(sleeveEquities.total, floor)
      riskyWeight     == MathMin(fDiv(fMul(config.cppiM, cushion), sleeveEquities.total), One)
      targetWeights   == computeTargetWeights(riskyWeight)
      currentWeights  == computeCurrentWeights(sleeveEquities)
      needsRebalance  == shouldRebalance(lrw, targetWeights, currentWeights, weeksSinceStart)
  IN  [investedToDate |-> investedToDate, floor |-> floor, cushion |-> cushion,
       riskyWeight |-> riskyWeight, targetWeights |-> targetWeights,
       currentWeights |-> currentWeights, needsRebalance |-> needsRebalance,
       weeksSinceStart |-> weeksSinceStart]

computeCPPIMetrics(lrw, sleeveEquities, day) ==
  LET weeksSinceStart == getWeeksSinceStart(day)
      investedToDate  == computeInvestedToDate(day)
      floor           == fMul(config.floorPct, investedToDate)
      cushion         == MathMax(fSub(sleeveEquities.total, floor), Zero)
      riskyWeight     == MathMin(fDiv(fMul(config.cppiM, cushion), sleeveEquities.total), One)
      targetWeights   == computeTargetWeights(riskyWeight)
      currentWeights  == computeCurrentWeights(sleeveEquities)
      needsRebalance  == shouldRebalance(lrw, targetWeights, currentWeights, weeksSinceStart)
  IN  [investedToDate |-> investedToDate, floor |-> floor, cushion |-> cushion,
       riskyWeight |-> riskyWeight, targetWeights |-> targetWeights,
       currentWeights |-> currentWeights, needsRebalance |-> needsRebalance,
       weeksSinceStart |-> weeksSinceStart]


computeContributionsAllocation_unscaled(targetWeights, currentEquities, weeklyDeposit) ==
  LET targetTotalAfterDeposit == fAdd(currentEquities.total, weeklyDeposit)
      targetDollars  == [s \in Sleeves |-> fMul(targetWeights[s], targetTotalAfterDeposit)]
      shortfalls     == [s \in Sleeves |->
                           MathMax(Zero, fSub(targetDollars[s], currentEquities[s]))]
      totalShortfall == SumWeights(shortfalls)
      remaining      == fSub(weeklyDeposit, totalShortfall)
      totalTarget    == SumWeights(targetWeights)
  IN  IF fLe(totalShortfall, weeklyDeposit) /\ fGt(remaining, Zero)
      THEN [s \in Sleeves |->
              fAdd(shortfalls[s], fMul(remaining, fDiv(targetWeights[s], totalTarget)))]
      ELSE shortfalls

computeContributionsAllocation(targetWeights, currentEquities, weeklyDeposit) ==
  LET targetTotalAfterDeposit == fAdd(currentEquities.total, weeklyDeposit)
      targetDollars  == [s \in Sleeves |-> fMul(targetWeights[s], targetTotalAfterDeposit)]
      shortfalls     == [s \in Sleeves |->
                           MathMax(Zero, fSub(targetDollars[s], currentEquities[s]))]
      totalShortfall == SumWeights(shortfalls)
      remaining      == fSub(weeklyDeposit, totalShortfall)
      totalTarget    == SumWeights(targetWeights)
      scaleFactor    == fDiv(weeklyDeposit, totalShortfall)
  IN  IF fLe(totalShortfall, weeklyDeposit)
      THEN IF fGt(remaining, Zero)
           THEN [s \in Sleeves |->
                   fAdd(shortfalls[s],
                        fMul(remaining, fDiv(targetWeights[s], totalTarget)))]
           ELSE shortfalls
      ELSE [s \in Sleeves |-> fMul(shortfalls[s], scaleFactor)]

getMinTicket(sleeveType) ==
  CASE sleeveType = "debit"    -> config.minTickets.debit
    [] sleeveType = "credit"   -> config.minTickets.creditMaxLoss
    [] sleeveType = "straddle" -> config.minTickets.straddle
    [] sleeveType = "hedge"    -> config.minTickets.hedge
    [] sleeveType = "collar"   -> Zero
    [] OTHER                   -> Zero

computeRiskBudget_monthlyNotScaled(sleeveType, sleeveEquity, cadence) ==
  LET baseRiskPct == IF sleeveType \in DOMAIN config.baseRiskPct
                        /\ ~IsNaN(config.baseRiskPct[sleeveType])
                     THEN config.baseRiskPct[sleeveType] ELSE Zero
      riskScale   == IF sleeveType = "collar" THEN One ELSE config.riskScaleOptions
      budget      == fMul(fMul(sleeveEquity, baseRiskPct), riskScale)
  IN  MathMax(budget, getMinTicket(sleeveType))

computeRiskBudget(sleeveType, sleeveEquity, cadence) ==
  LET baseRiskPct == IF sleeveType \in DOMAIN config.baseRiskPct
                        /\ ~IsNaN(config.baseRiskPct[sleeveType])
                     THEN config.baseRiskPct[sleeveType] ELSE Zero
      riskScale   == IF sleeveType = "collar" THEN One ELSE config.riskScaleOptions
      budget      == fMul(fMul(sleeveEquity, baseRiskPct), riskScale)
      scaled      == IF cadence = "monthly" THEN fMul(budget, Num(4)) ELSE budget
  IN  MathMax(scaled, getMinTicket(sleeveType))

executeRebalance(weeksSinceStart) == weeksSinceStart

shouldPlaceStraddleThisWeek_everyWeek(weeksSinceStart) == TRUE

shouldPlaceStraddleThisWeek(weeksSinceStart) == weeksSinceStart % 4 = 0

(***************************************************************************)
(* State of the engine harness.                                            *)
(*   lastRebalanceWeek  CPPIEngine.lastRebalanceWeek                       *)
(*   rebalanceArg       the week passed to the latest executeRebalance     *)
(*                      call on the engine, 0 before the first             *)
(*   arg                the call a client of the engine makes: operation   *)
(*                      and arguments, drawn from the input sets           *)
(*   ret                the latest call made and the value it returned     *)
(***************************************************************************)
VARIABLES lastRebalanceWeek, rebalanceArg, arg, ret

(***************************************************************************)
(* State of a process of the live bot (main-cppi.ts) or of the demo.       *)
(*   pc, prog, proc     control location, program run by the process       *)
(*                      ("bot" or "demo"), number of processes started     *)
(*   now, engineStart   wall clock and the engine's startDate, in days     *)
(*   dryRun, enableTradeLogging, strategies    the loaded config.json      *)
(*   stateFile          data/portfolio_state.json ("none" if absent)       *)
(*   portfolioState     runCPPIStrategy's portfolioState                   *)
(*   strategyIdx, legs, riskBudget   executeSleeveStrategy's position      *)
(*   placeOrderCalls    trade.place_order invocations of this process      *)
(*   tradeData          records saveTradeData wrote to today's trades file *)
(*   dryLog             "[DRY] place_order" lines logged by this process   *)
(*   lastOrder          value returned by the latest placeLimit            *)
(*   calls              engine methods invoked by the latest step          *)
(*   rebalanceCalls     executeRebalance calls made by the current run     *)
(*   week, mockEq, demoMetrics   the demo loop's locals                    *)
(***************************************************************************)
VARIABLES pc, prog, proc, now, engineStart, dryRun, enableTradeLogging, strategies,
          stateFile, portfolioState, strategyIdx, legs, riskBudget,
          placeOrderCalls, tradeData, dryLog, lastOrder, calls, rebalanceCalls,
          week, mockEq, demoMetrics

(***************************************************************************)
(* State of the backtests (backtest.ts).                                   *)
(*   btConfig           the BacktestConfig of the engine(s)                *)
(*   btRun, firstResult number of the current execution of runBacktest     *)
(*                      and the result the first one returned              *)
(*   btPc               control location inside runBacktest                *)
(*   cash, portfolio, trades, randSeed, currentDate    BacktestEngine's    *)
(*                      fields of the same names                           *)
(*   dateIdx, btStrategyIdx, pendingTrades   positions of the loops over   *)
(*                      tradingDates, config.strategies and a strategy's   *)
(*                      trades                                             *)
(*   dayStartValue, dailyPnL, cumPnL   runBacktest's locals                *)
(*   result             the BacktestResult runBacktest returned            *)
(***************************************************************************)
VARIABLES btConfig, btRun, firstResult, btPc, cash, portfolio, trades, randSeed,
          currentDate, dateIdx, btStrategyIdx, pendingTrades, dayStartValue,
          dailyPnL, cumPnL, result

(***************************************************************************)
(* State of the mock data generators (backtest.ts, MockDataGenerator).     *)
(*   genInput           seed, symbols and date range given to the          *)
(*                      generator(s)                                       *)
(*   genRun, firstGenerated   number of the current generator instance     *)
(*                      and the data the first one returned                *)
(*   genPc              control location: generateMarketData,              *)
(*                      generateOptionData, or returned                    *)
(*   genS               MockDataGenerator.s, as <<high, low>> 16-bit halves *)
(*   genSymIdx, genDay, genPrice   generateMarketData's position in        *)
(*                      symbols, its currentDate and its currentPrice      *)
(*   genMarket          the MarketData[] generateMarketData builds         *)
(*   genRow, genDteIdx  generateOptionData's position in marketData and    *)
(*                      in daysToExpiry                                    *)
(*   genOptions         the OptionData[] generateOptionData builds         *)
(***************************************************************************)
VARIABLES genInput, genRun, firstGenerated, genPc, genS, genSymIdx, genDay,
          genPrice, genMarket, genRow, genDteIdx, genOptions

engineVars == <<lastRebalanceWeek, rebalanceArg, arg, ret>>

btVars == <<btConfig, btRun, firstResult, btPc, cash, portfolio, trades, randSeed,
            currentDate, dateIdx, btStrategyIdx, pendingTrades, dayStartValue,
            dailyPnL, cumPnL, result>>

genVars == <<genInput, genRun, firstGenerated, genPc, genS, genSymIdx, genDay,
             genPrice, genMarket, genRow, genDteIdx, genOptions>>

harnessVars == <<arg, ret>>

botVars == <<pc, prog, proc, now, engineStart, dryRun, enableTradeLogging, strategies,
             stateFile, portfolioState, strategyIdx, legs, riskBudget,
             placeOrderCalls, tradeData, dryLog, lastOrder, calls, rebalanceCalls,
             week, mockEq, demoMetrics>>

vars == <<lastRebalanceWeek, rebalanceArg, arg, ret, pc, prog, proc, now, engineStart,
          dryRun, enableTradeLogging, strategies, stateFile, portfolioState,
          strategyIdx, legs, riskBudget, placeOrderCalls, tradeData, dryLog,
          lastOrder, calls, rebalanceCalls, week, mockEq, demoMetrics,
          btConfig, btRun, firstResult, btPc, cash, portfolio, trades, randSeed,
          currentDate, dateIdx, btStrategyIdx, pendingTrades, dayStartValue,
          dailyPnL, cumPnL, result,
          genInput, genRun, firstGenerated, genPc, genS, genSymIdx, genDay,
          genPrice, genMarket, genRow, genDteIdx, genOptions>>

Eq(d, c, s, col, h) ==
  [debit |-> Num(d), credit |-> Num(c), straddle |-> Num(s), collar |-> Num(col),
   hedge |-> Num(h), total |-> Num(d + c + s + col + h)]

mockEquities == Eq(2000, 1500, 1000, 4000, 500)

EquityInputs ==
  { mockEquities,
    Eq(1200, 300, 500, 6820, 180),
    Eq(0, 0, 0, 0, 0),
    Eq(0, 0, 0, 8330, 170),
    Eq(500, 500, 500, 6000, 500),
    Eq(7200, 1800, 3000, 0, 0),
    Eq(6000, 2000, 3000, 200, 100),
    Eq(-100, 0, 0, 0, 0) }

DayInputs == { 7 * w + o : w \in 0..MaxWeek, o \in {0, 6} }

W5(a, b, c, d, e) ==
  [debit |-> a, credit |-> b, straddle |-> c, collar |-> d, hedge |-> e]

WeightInputs ==
  { computeCPPIMetrics(0, eq, 0).targetWeights : eq \in EquityInputs }
  \cup { W5(Frac(1, 5), Frac(1, 5), Frac(1, 5), Frac(1, 5), Frac(1, 5)),
         W5(Frac(1, 2), Zero, Zero, Zero, Zero),
         W5(Frac(3, 10), Frac(3, 10), Frac(3, 10), Frac(3, 10), Frac(3, 10)) }

DepositInputs == { Num(0), Num(50), Num(1000), Num(5000) }

(***************************************************************************)
(* config.ts: the parts of config.json that ConfigManager.validateConfig   *)
(* reads, and the CPPI split and risk fractions; Null is no file.          *)
(***************************************************************************)
StrategyParameters(id, contracts, dteMin, dteMax) ==
  [id |-> id, parameters |-> [contracts |-> contracts, dteMin |-> dteMin,
                              dteMax |-> dteMax]]

\* The file generateDefaultConfig writes.
defaultConfigFile ==
  [strategies |-> << StrategyParameters("example_strategy", 1, 21, 45) >>,
   universe   |-> [maxSymbols |-> 6],
   risk       |-> [globalLimits |-> [maxTotalWeeklySpend |-> 1000]],
   cppi       |-> [riskySplit  |-> config.riskySplit,
                   baseRiskPct |-> config.baseRiskPct]]

ConfigFileInputs ==
  { defaultConfigFile,
    [defaultConfigFile EXCEPT !.cppi.riskySplit.credit = Frac(60, 100),
                              !.cppi.riskySplit.straddle = Frac(60, 100)],
    [defaultConfigFile EXCEPT !.cppi.riskySplit.debit = Frac(30, 100)],
    [defaultConfigFile EXCEPT !.cppi.baseRiskPct.debit = Zero],
    [defaultConfigFile EXCEPT !.cppi.baseRiskPct.hedge = Frac(-1, 100)],
    [defaultConfigFile EXCEPT
       !.strategies = << StrategyParameters("debit_spreads", 1, 45, 21) >>],
    [defaultConfigFile EXCEPT
       !.strategies = << StrategyParameters("debit_spreads", 1, 21, 45),
                         StrategyParameters("credit_spreads", 2, 30, 30) >>],
    [defaultConfigFile EXCEPT
       !.strategies = << StrategyParameters("debit_spreads", 1, 21, 45),
                         StrategyParameters("debit_spreads", 0, 21, 45) >>],
    [defaultConfigFile EXCEPT !.strategies = <<>>],
    [defaultConfigFile EXCEPT !.universe.maxSymbols = 0],
    [defaultConfigFile EXCEPT !.risk.globalLimits.maxTotalWeeklySpend = 0] }

\* The errors validateConfig collects.
validateConfig(cfg) ==
  LET strategyErrors(i) ==
        LET strategy == cfg.strategies[i]
        IN  (IF \E j \in 1..(i - 1) : cfg.strategies[j].id = strategy.id
             THEN { "Duplicate strategy ID" } ELSE {})
            \cup (IF strategy.parameters.contracts <= 0
                  THEN { "contracts must be positive" } ELSE {})
            \cup (IF strategy.parameters.dteMin >= strategy.parameters.dteMax
                  THEN { "dteMin must be less than dteMax" } ELSE {})
  IN  (IF Len(cfg.strategies) = 0
       THEN { "At least one strategy must be configured" } ELSE {})
      \cup UNION { strategyErrors(i) : i \in 1..Len(cfg.strategies) }
      \cup (IF cfg.universe.maxSymbols <= 0
            THEN { "Universe maxSymbols must be positive" } ELSE {})
      \cup (IF cfg.risk.globalLimits.maxTotalWeeklySpend <= 0
            THEN { "Global maxTotalWeeklySpend must be positive" } ELSE {})

\* new ConfigManager(configPath): loadConfig, applyEnvironmentOverrides (no
\* variable of the environment set) and validateConfig; it throws, or the
\* manager holds the configuration of the file.
ConfigManager(file) ==
  IF file = Null THEN [threw |-> TRUE, message |-> "Config file not found"]
  ELSE IF validateConfig(file) # {}
  THEN [threw |-> TRUE, message |-> "Configuration validation failed"]
  ELSE [threw |-> FALSE, config |-> file]

ArgInputs ==
  { [op |-> "computeCPPIMetrics", equities |-> eq, day |-> day] :
      eq \in EquityInputs, day \in DayInputs }
  \cup
  { [op |-> "computeContributionsAllocation", targetWeights |-> tw,
     equities |-> eq, deposit |-> dep] :
      tw \in WeightInputs, eq \in EquityInputs, dep \in DepositInputs }
  \cup
  { [op |-> "computeRiskBudget", sleeve |-> sleeve, equity |-> eq[sleeve],
     cadence |-> cadence] :
      sleeve \in Sleeves, eq \in EquityInputs, cadence \in {"weekly", "monthly"} }
  \cup
  { [op |-> "shouldPlaceStraddleThisWeek", week |-> w] : w \in 0..MaxWeek }
  \cup
  { [op |-> "ConfigManager", file |-> file] : file \in ConfigFileInputs \cup {Null} }

InitEngine ==
  /\ lastRebalanceWeek = 0
  /\ rebalanceArg = 0
  /\ arg \in ArgInputs
  /\ ret = [op |-> "new"]

CallComputeCPPIMetrics ==
  /\ arg.op = "computeCPPIMetrics"
  /\ ret' = [op |-> arg.op,
             metrics |-> computeCPPIMetrics(lastRebalanceWeek, arg.equities, arg.day)]
  /\ UNCHANGED <<lastRebalanceWeek, rebalanceArg, arg>>
  /\ UNCHANGED <<botVars, btVars, genVars>>

CallComputeContributionsAllocation ==
  /\ arg.op = "computeContributionsAllocation"
  /\ ret' = [op |-> arg.op,
             allocation |-> computeContributionsAllocation(
                              arg.targetWeights, arg.equities, arg.deposit)]
  /\ UNCHANGED <<lastRebalanceWeek, rebalanceArg, arg>>
  /\ UNCHANGED <<botVars, btVars, genVars>>

CallComputeRiskBudget ==
  /\ arg.op = "computeRiskBudget"
  /\ ret' = [op |-> arg.op,
             budget |-> computeRiskBudget(arg.sleeve, arg.equity, arg.cadence)]
  /\ UNCHANGED <<lastRebalanceWeek, rebalanceArg, arg>>
  /\ UNCHANGED <<botVars, btVars, genVars>>

CallExecuteRebalance ==
  \E w \in 0..MaxWeek :
    /\ lastRebalanceWeek' = executeRebalance(w)
    /\ rebalanceArg' = w
    /\ ret' = [op |-> "executeRebalance"]
    /\ UNCHANGED arg
    /\ UNCHANGED <<botVars, btVars, genVars>>

CallShouldPlaceStraddleThisWeek ==
  /\ arg.op = "shouldPlaceStraddleThisWeek"
  /\ ret' = [op |-> arg.op, place |-> shouldPlaceStraddleThisWeek(arg.week)]
  /\ UNCHANGED <<lastRebalanceWeek, rebalanceArg, arg>>
  /\ UNCHANGED <<botVars, btVars, genVars>>

CallConfigManager ==
  /\ arg.op = "ConfigManager"
  /\ ret' = [op |-> arg.op, manager |-> ConfigManager(arg.file)]
  /\ UNCHANGED <<lastRebalanceWeek, rebalanceArg, arg>>
  /\ UNCHANGED <<botVars, btVars, genVars>>

NoProcess ==
  /\ pc = "idle"
  /\ prog = "none"
  /\ proc = 0
  /\ now = 0
  /\ engineStart = 0
  /\ portfolioState = Null
  /\ strategyIdx = 0
  /\ legs = <<>>
  /\ riskBudget = Zero
  /\ placeOrderCalls = 0
  /\ tradeData = {}
  /\ dryLog = 0
  /\ lastOrder = Null
  /\ calls = {}
  /\ rebalanceCalls = 0
  /\ week = 0
  /\ mockEq = Null
  /\ demoMetrics = Null

\* No MockDataGenerator has been constructed.
NoGenerator ==
  /\ genInput = Null
  /\ genRun = 0
  /\ firstGenerated = Null
  /\ genPc = "none"
  /\ genS = <<0, 0>>
  /\ genSymIdx = 0
  /\ genDay = 0
  /\ genPrice = 0
  /\ genMarket = <<>>
  /\ genRow = 0
  /\ genDteIdx = 0
  /\ genOptions = <<>>

\* No BacktestEngine has been constructed.
NoBacktest ==
  /\ btConfig = Null
  /\ btRun = 0
  /\ firstResult = Null
  /\ btPc = "none"
  /\ cash = Zero
  /\ portfolio = <<>>
  /\ trades = <<>>
  /\ randSeed = <<0, 0>>
  /\ currentDate = 0
  /\ dateIdx = 0
  /\ btStrategyIdx = 0
  /\ pendingTrades = <<>>
  /\ dayStartValue = Zero
  /\ dailyPnL = <<>>
  /\ cumPnL = Zero
  /\ result = Null

Init ==
  /\ InitEngine
  /\ NoProcess
  /\ NoBacktest
  /\ NoGenerator
  /\ stateFile = Null
  /\ dryRun = TRUE
  /\ enableTradeLogging = TRUE
  /\ strategies = <<>>

Next ==
  \/ CallComputeCPPIMetrics
  \/ CallComputeContributionsAllocation
  \/ CallComputeRiskBudget
  \/ CallExecuteRebalance
  \/ CallShouldPlaceStraddleThisWeek
  \/ CallConfigManager

Spec == Init /\ [][Next]_vars


(***************************************************************************)
(* main-cppi.ts: portfolio state, weekly deposit, strategy legs.           *)
(***************************************************************************)
SleeveKeys == Sleeves \cup {"total"}

SumSleeves(eq) == SumWeights(eq)

shouldAllocateWeeklyDeposit(today, lastUpdate) == today - lastUpdate >= 7

allocateWeeklyDeposit_totalNotUpdated(lrw, ps, day) ==
  LET allocation == computeContributionsAllocation(
                      ps.cppiMetrics.targetWeights, ps.sleeveEquities, config.weeklyDeposit)
      eq == [k \in SleeveKeys |->
               IF k = "total" THEN ps.sleeveEquities.total
               ELSE fAdd(ps.sleeveEquities[k], allocation[k])]
  IN  [ps EXCEPT !.sleeveEquities = eq,
                 !.cppiMetrics = computeCPPIMetrics(lrw, eq, day)]

allocateWeeklyDeposit(lrw, ps, day) ==
  LET allocation == computeContributionsAllocation(
                      ps.cppiMetrics.targetWeights, ps.sleeveEquities, config.weeklyDeposit)
      eq == [k \in SleeveKeys |->
               IF k = "total" THEN fAdd(ps.sleeveEquities.total, config.weeklyDeposit)
               ELSE fAdd(ps.sleeveEquities[k], allocation[k])]
  IN  [ps EXCEPT !.sleeveEquities = eq,
                 !.cppiMetrics = computeCPPIMetrics(lrw, eq, day)]

\* JSON.stringify writes a non-finite number as null; null read back acts as 0.
jsonNumber(x) == IF IsFinite(x) THEN x ELSE Zero

jsonWeights(w) == [s \in Sleeves |-> jsonNumber(w[s])]

savedPortfolioState(ps) ==
  [sleeveEquities |-> [k \in SleeveKeys |-> jsonNumber(ps.sleeveEquities[k])],
   cppiMetrics    |-> [ps.cppiMetrics EXCEPT
                         !.investedToDate = jsonNumber(@), !.floor = jsonNumber(@),
                         !.cushion = jsonNumber(@), !.riskyWeight = jsonNumber(@),
                         !.targetWeights = jsonWeights(@),
                         !.currentWeights = jsonWeights(@)],
   lastUpdateTime |-> ps.lastUpdateTime]

getSleeveType(strategyId) ==
  CASE strategyId = "debit_spreads"   -> "debit"
    [] strategyId = "credit_spreads"  -> "credit"
    [] strategyId = "event_straddles" -> "straddle"
    [] strategyId = "collar_equity"   -> "collar"
    [] strategyId = "crash_hedge"     -> "hedge"
    [] OTHER                          -> "null"

Strategy(id, components, contracts) ==
  [id |-> id, components |-> components, contracts |-> contracts]

\* Enabled strategies of config.json (ConfigManager.getStrategies).
StrategyConfigs ==
  { << Strategy("debit_spreads", <<"debit_call_vertical">>, 1),
       Strategy("event_straddles", <<"atm_straddle">>, 1) >>,
    << Strategy("collar_equity", <<"collar_position">>, 2),
       Strategy("crash_hedge", <<"crash_hedge_put">>, 1) >>,
    << Strategy("credit_spreads", <<"credit_put_spread">>, 3),
       Strategy("barbell_convex", <<"debit_call_vertical">>, 1) >> }

\* A leg as the builders return it: no limit price is ever set (0 = undefined).
Leg(code, side, qty) == [code |-> code, side |-> side, qty |-> qty, limit |-> 0]

\* The leg lists a builder can return, over the option chains the broker may
\* serve: no contract found, or the contracts the builder selects.
BuilderResults(component, n) ==
  CASE component = "debit_call_vertical" ->
         { <<>>, <<Leg("C1", "BUY", n), Leg("C2", "SELL", n)>> }
    [] component = "credit_put_spread" ->
         { <<>>, <<Leg("P2", "SELL", n), Leg("P1", "BUY", n)>> }
    [] component = "atm_straddle" ->
         { <<>>, <<Leg("C1", "BUY", n), Leg("P1", "BUY", n)>> }
    [] component = "crash_hedge_put" ->
         { <<>>, <<Leg("P1", "BUY", n)>> }
    [] component = "collar_position" ->
         { <<>>, <<Leg("C2", "SELL", n)>>, <<Leg("P1", "BUY", n)>>,
           <<Leg("C2", "SELL", n), Leg("P1", "BUY", n)>> }
    [] OTHER -> { <<>> }

RECURSIVE BuildAllLegs(_, _)
BuildAllLegs(components, n) ==
  IF components = <<>> THEN { <<>> }
  ELSE { a \o b : a \in BuilderResults(Head(components), n),
                  b \in BuildAllLegs(Tail(components), n) }

RECURSIVE TotalNotional(_)
TotalNotional(ls) ==
  IF ls = <<>> THEN 0
  ELSE (IF Head(ls).limit # 0 THEN Head(ls).limit ELSE 100) * Head(ls).qty * 100
       + TotalNotional(Tail(ls))

MathFloor(x) == x.n \div x.d

Max(a, b) == IF a > b THEN a ELSE b

SizeLegs(allLegs, budget) ==
  LET totalNotional == Num(TotalNotional(allLegs))
      scaleFactor   == fDiv(budget, totalNotional)
  IN  IF fGt(totalNotional, budget)
      THEN [i \in 1..Len(allLegs) |->
              [allLegs[i] EXCEPT !.qty = Max(1, MathFloor(fMul(Num(@), scaleFactor)))]]
      ELSE allLegs

OrderId(prefix, n) == [prefix |-> prefix, n |-> n]

\* Prices in cents returned by the order book or the quote (0: none).
PriceInputs == {0, 250}

(***************************************************************************)
(* main-cppi.ts: one process of the bot.                                   *)
(***************************************************************************)
MaxProcs == 2

\* A portfolio_state.json found at the first run: total is the sum of the
\* sleeves; its metrics were computed four weeks after an engine's start.
SeedStateFiles ==
  { [sleeveEquities |-> mockEquities,
     cppiMetrics    |-> computeCPPIMetrics(0, mockEquities, days),
     lastUpdateTime |-> 0] : days \in {28, 35} }

engineUnchanged == UNCHANGED <<lastRebalanceWeek, rebalanceArg>>

demoUnchanged == UNCHANGED <<week, mockEq, demoMetrics>>

ordersUnchanged == UNCHANGED <<placeOrderCalls, tradeData, dryLog, lastOrder>>

configUnchanged == UNCHANGED <<prog, proc, now, engineStart, dryRun, enableTradeLogging, strategies>>

\* Module load: ConfigManager.createDefault (config.json is the same file for
\* every process), new CPPIEngine(config.cppi), then main -> runCPPIStrategy
\* -> api.connect.
StartBot ==
  /\ pc \in {"idle", "done", "failed"}
  /\ proc < MaxProcs
  /\ \E dt \in {1, 7} :
       /\ now' = now + dt
       /\ engineStart' = now + dt
  /\ prog' = "bot"
  /\ proc' = proc + 1
  /\ lastRebalanceWeek' = 0
  /\ rebalanceArg' = 0
  /\ rebalanceCalls' = 0
  /\ calls' = {}
  /\ pc' = "connected"
  /\ portfolioState' = Null
  /\ strategyIdx' = 0
  /\ legs' = <<>>
  /\ riskBudget' = Zero
  /\ lastOrder' = Null
  /\ placeOrderCalls' = 0
  /\ tradeData' = {}
  /\ dryLog' = 0
  /\ week' = 0
  /\ mockEq' = Null
  /\ demoMetrics' = Null
  /\ UNCHANGED <<stateFile, dryRun, enableTradeLogging, strategies>>
  /\ UNCHANGED <<harnessVars, btVars, genVars>>

loadPortfolioState ==
  /\ pc = "connected"
  /\ prog = "bot"
  /\ IF stateFile # Null
     THEN /\ portfolioState' = stateFile
          /\ calls' = {}
     ELSE /\ portfolioState' =
               [sleeveEquities |-> mockEquities,
                cppiMetrics    |-> computeCPPIMetrics(lastRebalanceWeek, mockEquities,
                                                      now - engineStart),
                lastUpdateTime |-> now]
          /\ calls' = {"computeCPPIMetrics"}
  /\ pc' = "loaded"
  /\ UNCHANGED <<stateFile, strategyIdx, legs, riskBudget, rebalanceCalls>>
  /\ engineUnchanged /\ demoUnchanged /\ ordersUnchanged /\ configUnchanged
  /\ UNCHANGED <<harnessVars, btVars, genVars>>

WeeklyDepositStep ==
  /\ pc = "loaded"
  /\ IF shouldAllocateWeeklyDeposit(now, portfolioState.lastUpdateTime)
     THEN /\ portfolioState' = allocateWeeklyDeposit(lastRebalanceWeek, portfolioState,
                                                     now - engineStart)
          /\ calls' = {"computeContributionsAllocation", "computeCPPIMetrics"}
     ELSE /\ UNCHANGED portfolioState
          /\ calls' = {}
  /\ pc' = "allocated"
  /\ UNCHANGED <<stateFile, strategyIdx, legs, riskBudget, rebalanceCalls>>
  /\ engineUnchanged /\ demoUnchanged /\ ordersUnchanged /\ configUnchanged
  /\ UNCHANGED <<harnessVars, btVars, genVars>>

RebalanceAlways ==
  /\ pc = "allocated"
  /\ lastRebalanceWeek' = executeRebalance(portfolioState.cppiMetrics.weeksSinceStart)
  /\ rebalanceArg' = portfolioState.cppiMetrics.weeksSinceStart
  /\ rebalanceCalls' = rebalanceCalls + 1
  /\ calls' = {"executeRebalance"}
  /\ pc' = "strategies"
  /\ strategyIdx' = 1
  /\ UNCHANGED <<stateFile, portfolioState, legs, riskBudget>>
  /\ demoUnchanged /\ ordersUnchanged /\ configUnchanged
  /\ UNCHANGED <<harnessVars, btVars, genVars>>

RebalanceStep ==
  /\ pc = "allocated"
  /\ IF portfolioState.cppiMetrics.needsRebalance
     THEN /\ lastRebalanceWeek' = executeRebalance(portfolioState.cppiMetrics.weeksSinceStart)
          /\ rebalanceArg' = portfolioState.cppiMetrics.weeksSinceStart
          /\ rebalanceCalls' = rebalanceCalls + 1
          /\ calls' = {"executeRebalance"}
     ELSE /\ engineUnchanged
          /\ UNCHANGED rebalanceCalls
          /\ calls' = {}
  /\ pc' = "strategies"
  /\ strategyIdx' = 1
  /\ UNCHANGED <<stateFile, portfolioState, legs, riskBudget>>
  /\ demoUnchanged /\ ordersUnchanged /\ configUnchanged
  /\ UNCHANGED <<harnessVars, btVars, genVars>>

\* executeSleeveStrategy up to and including the sizing of the legs.
executeSleeveStrategy ==
  /\ pc = "strategies"
  /\ strategyIdx <= Len(strategies)
  /\ LET strategy   == strategies[strategyIdx]
         sleeveType == getSleeveType(strategy.id)
         gated      == strategy.id = "event_straddles"
                         /\ ~shouldPlaceStraddleThisWeek(
                               portfolioState.cppiMetrics.weeksSinceStart)
         cadence    == IF strategy.id = "event_straddles" THEN "monthly" ELSE "weekly"
     IN  IF sleeveType = "null"
         THEN /\ calls' = {}
              /\ strategyIdx' = strategyIdx + 1
              /\ UNCHANGED <<pc, legs, riskBudget>>
         ELSE IF gated
         THEN /\ calls' = {"shouldPlaceStraddleThisWeek"}
              /\ strategyIdx' = strategyIdx + 1
              /\ UNCHANGED <<pc, legs, riskBudget>>
         ELSE LET budget == computeRiskBudget(sleeveType,
                               portfolioState.sleeveEquities[sleeveType], cadence)
              IN  /\ calls' = (IF strategy.id = "event_straddles"
                               THEN {"shouldPlaceStraddleThisWeek"} ELSE {})
                              \cup {"computeRiskBudget"}
                  /\ riskBudget' = budget
                  /\ \/ \* getAccount or the option chain query fails
                        /\ pc' = "failed"
                        /\ UNCHANGED <<strategyIdx, legs>>
                     \/ \* no suitable expiry
                        /\ strategyIdx' = strategyIdx + 1
                        /\ UNCHANGED <<pc, legs>>
                     \/ \E allLegs \in BuildAllLegs(strategy.components, strategy.contracts) :
                          IF allLegs = <<>>
                          THEN /\ strategyIdx' = strategyIdx + 1
                               /\ UNCHANGED <<pc, legs>>
                          ELSE /\ legs' = SizeLegs(allLegs, budget)
                               /\ pc' = "placing"
                               /\ UNCHANGED strategyIdx
  /\ UNCHANGED <<stateFile, portfolioState, rebalanceCalls>>
  /\ engineUnchanged /\ demoUnchanged /\ ordersUnchanged /\ configUnchanged
  /\ UNCHANGED <<harnessVars, btVars, genVars>>

placeLimit_ignoresDryRun ==
  /\ pc = "placing"
  /\ legs # <<>>
  /\ LET leg == Head(legs)
     IN  \E px \in PriceInputs, ok \in BOOLEAN :
           LET orderData == [code |-> leg.code, side |-> leg.side, qty |-> leg.qty,
                             price |-> px]
               done == /\ legs' = Tail(legs)
                       /\ IF Tail(legs) = <<>>
                          THEN pc' = "strategies" /\ strategyIdx' = strategyIdx + 1
                          ELSE UNCHANGED <<pc, strategyIdx>>
           IN  IF FALSE
               THEN /\ dryLog' = dryLog + 1
                    /\ tradeData' = IF enableTradeLogging
                                    THEN tradeData \cup
                                           {[data |-> orderData, dry_run |-> TRUE,
                                             order_id |-> OrderId("DRY-", now)]}
                                    ELSE tradeData
                    /\ lastOrder' = [order_id |-> OrderId("DRY-", now)]
                    /\ UNCHANGED placeOrderCalls
                    /\ done
               ELSE /\ placeOrderCalls' = placeOrderCalls + 1
                    /\ UNCHANGED dryLog
                    /\ IF ok
                       THEN /\ tradeData' = IF enableTradeLogging
                                            THEN tradeData \cup
                                                   {[data |-> orderData, dry_run |-> FALSE,
                                                     order_id |-> OrderId("", placeOrderCalls + 1)]}
                                            ELSE tradeData
                            /\ lastOrder' = [order_id |-> OrderId("", placeOrderCalls + 1)]
                            /\ done
                       ELSE /\ pc' = "failed"
                            /\ lastOrder' = Null
                            /\ UNCHANGED <<tradeData, legs, strategyIdx>>
  /\ calls' = {"placeLimit"}
  /\ UNCHANGED <<stateFile, portfolioState, riskBudget, rebalanceCalls>>
  /\ engineUnchanged /\ demoUnchanged /\ configUnchanged
  /\ UNCHANGED <<harnessVars, btVars, genVars>>

\* One iteration of the placement loop: Moomoo.placeLimit for the next leg.
placeLimit ==
  /\ pc = "placing"
  /\ legs # <<>>
  /\ LET leg == Head(legs)
     IN  \E px \in PriceInputs, ok \in BOOLEAN :
           LET orderData == [code |-> leg.code, side |-> leg.side, qty |-> leg.qty,
                             price |-> px]
               done == /\ legs' = Tail(legs)
                       /\ IF Tail(legs) = <<>>
                          THEN pc' = "strategies" /\ strategyIdx' = strategyIdx + 1
                          ELSE UNCHANGED <<pc, strategyIdx>>
           IN  IF dryRun
               THEN /\ dryLog' = dryLog + 1
                    /\ tradeData' = IF enableTradeLogging
                                    THEN tradeData \cup
                                           {[data |-> orderData, dry_run |-> TRUE,
                                             order_id |-> OrderId("DRY-", now)]}
                                    ELSE tradeData
                    /\ lastOrder' = [order_id |-> OrderId("DRY-", now)]
                    /\ UNCHANGED placeOrderCalls
                    /\ done
               ELSE /\ placeOrderCalls' = placeOrderCalls + 1
                    /\ UNCHANGED dryLog
                    /\ IF ok
                       THEN /\ tradeData' = IF enableTradeLogging
                                            THEN tradeData \cup
                                                   {[data |-> orderData, dry_run |-> FALSE,
                                                     order_id |-> OrderId("", placeOrderCalls + 1)]}
                                            ELSE tradeData
                            /\ lastOrder' = [order_id |-> OrderId("", placeOrderCalls + 1)]
                            /\ done
                       ELSE /\ pc' = "failed"
                            /\ lastOrder' = Null
                            /\ UNCHANGED <<tradeData, legs, strategyIdx>>
  /\ calls' = {"placeLimit"}
  /\ UNCHANGED <<stateFile, portfolioState, riskBudget, rebalanceCalls>>
  /\ engineUnchanged /\ demoUnchanged /\ configUnchanged
  /\ UNCHANGED <<harnessVars, btVars, genVars>>

savePortfolioState ==
  /\ pc = "strategies"
  /\ strategyIdx > Len(strategies)
  /\ portfolioState' = [portfolioState EXCEPT !.lastUpdateTime = now]
  /\ stateFile' = IF enableTradeLogging
                  THEN savedPortfolioState(portfolioState')
                  ELSE stateFile
  /\ pc' = "done"
  /\ calls' = {}
  /\ UNCHANGED <<strategyIdx, legs, riskBudget, rebalanceCalls>>
  /\ engineUnchanged /\ demoUnchanged /\ ordersUnchanged /\ configUnchanged
  /\ UNCHANGED <<harnessVars, btVars, genVars>>

(***************************************************************************)
(* cppi-demo.ts (unnamed/part_000).                                        *)
(***************************************************************************)
DemoWeeks == 10

\* Values of the five Math.random() draws of one week: a flat week, and a
\* week in which the debit sleeve gains 25 and the straddle sleeve loses 25.
DemoDraws ==
  { <<Frac(4, 10), Frac(3, 10), Frac(45, 100), Frac(45, 100), Frac(8, 10)>>,
    <<Frac(9, 10), Frac(3, 10), Frac(11, 80), Frac(45, 100), Frac(8, 10)>> }

Perf(r, bias, scale) == fMul(fSub(r, bias), Num(scale))

demoUpdate(eq, allocation, r) ==
  LET raw == [debit    |-> fAdd(eq.debit, fAdd(allocation.debit, Perf(r[1], Frac(4, 10), 50))),
              credit   |-> fAdd(eq.credit, fAdd(allocation.credit, Perf(r[2], Frac(3, 10), 20))),
              straddle |-> fAdd(eq.straddle, fAdd(allocation.straddle, Perf(r[3], Frac(45, 100), 80))),
              collar   |-> fAdd(eq.collar, fAdd(allocation.collar, Perf(r[4], Frac(45, 100), 30))),
              hedge    |-> fAdd(eq.hedge, fAdd(allocation.hedge, Perf(r[5], Frac(8, 10), 30)))]
      clamped == [s \in Sleeves |-> MathMax(Zero, raw[s])]
  IN  [k \in SleeveKeys |-> IF k = "total" THEN SumSleeves(clamped) ELSE clamped[k]]

StartDemo ==
  /\ pc \in {"idle", "done", "failed"}
  /\ proc < MaxProcs
  /\ prog' = "demo"
  /\ proc' = proc + 1
  /\ engineStart' = now
  /\ lastRebalanceWeek' = 0
  /\ rebalanceArg' = 0
  /\ rebalanceCalls' = 0
  /\ calls' = {}
  /\ week' = 0
  /\ mockEq' = mockEquities
  /\ demoMetrics' = Null
  /\ pc' = "demo"
  /\ portfolioState' = Null
  /\ strategyIdx' = 0
  /\ legs' = <<>>
  /\ riskBudget' = Zero
  /\ lastOrder' = Null
  /\ placeOrderCalls' = 0
  /\ tradeData' = {}
  /\ dryLog' = 0
  /\ UNCHANGED <<now, dryRun, enableTradeLogging, strategies, stateFile>>
  /\ UNCHANGED <<harnessVars, btVars, genVars>>

DemoWeek ==
  /\ pc = "demo"
  /\ week < DemoWeeks
  /\ LET metrics    == computeCPPIMetrics(lastRebalanceWeek, mockEq, 7 * week)
         allocation == computeContributionsAllocation(
                         metrics.targetWeights, mockEq, config.weeklyDeposit)
     IN  /\ demoMetrics' = metrics
         /\ \E r \in DemoDraws : mockEq' = demoUpdate(mockEq, allocation, r)
  /\ calls' = {"computeCPPIMetrics", "computeContributionsAllocation",
               "computeRiskBudget", "shouldPlaceStraddleThisWeek"}
  /\ week' = week + 1
  /\ UNCHANGED <<pc, stateFile, portfolioState, strategyIdx, legs, riskBudget,
                 rebalanceCalls>>
  /\ engineUnchanged /\ ordersUnchanged /\ configUnchanged
  /\ UNCHANGED <<harnessVars, btVars, genVars>>

DemoComplete ==
  /\ pc = "demo"
  /\ ~(week < DemoWeeks)
  /\ pc' = "done"
  /\ calls' = {}
  /\ UNCHANGED <<stateFile, portfolioState, strategyIdx, legs, riskBudget,
                 rebalanceCalls>>
  /\ engineUnchanged /\ demoUnchanged /\ ordersUnchanged /\ configUnchanged
  /\ UNCHANGED <<harnessVars, btVars, genVars>>

InitBot ==
  /\ lastRebalanceWeek = 0
  /\ rebalanceArg = 0
  /\ arg = [op |-> "none"]
  /\ ret = [op |-> "new"]
  /\ NoProcess
  /\ NoBacktest
  /\ NoGenerator
  /\ stateFile \in {Null} \cup SeedStateFiles
  /\ dryRun \in BOOLEAN
  /\ enableTradeLogging \in BOOLEAN
  /\ strategies \in StrategyConfigs

NextBot ==
  \/ StartBot
  \/ loadPortfolioState
  \/ WeeklyDepositStep
  \/ RebalanceStep
  \/ executeSleeveStrategy
  \/ placeLimit
  \/ savePortfolioState
  \/ StartDemo
  \/ DemoWeek
  \/ DemoComplete

SpecBot == InitBot /\ [][NextBot]_vars

(***************************************************************************)
(* backtest.ts (unnamed/part_007): the mock data.                          *)
(*                                                                         *)
(* A date is a day number, 1 being 2023-01-01.  An option symbol           *)
(* `${underlying}_${expiry}_${strike}_${type}` is the tuple of its four    *)
(* parts.  The random walk of generateMarketData and the Black-Scholes     *)
(* values of calculateOptionPrice and calculateGreeks (logarithms, an erf  *)
(* approximation) are tabulated: MarketTable and ChainTable hold what      *)
(* MockDataGenerator, whose seed is always 42, computes: for US.SPY, the   *)
(* first symbol of every universe, whose rows do not depend on the end     *)
(* date, on the first 25 dates; for US.QQQ as second symbol, whose rows    *)
(* depend on the number of rows before them, of a run over                 *)
(* 2023-01-01..2023-01-02 and of a run over 2023-01-01..2025-06-02 (day    *)
(* 884).  Prices are in cents (after Math.round and the 0.01 floor),       *)
(* deltas in 1/10000.                                                      *)
(***************************************************************************)
MaxDates == 24

\* The dates followed of a run over several symbols.
MaxUniverseDates == 2

Min(a, b) == IF a < b THEN a ELSE b

Range(seq) == { seq[i] : i \in 1..Len(seq) }

\* m => m.date === date, at each index of rows.
dateMatches(rows, date) == [i \in 1..Len(rows) |-> rows[i].date = date]

\* opt => opt.symbol === symbol, at each index of options.
symbolMatches(options, symbol) == [i \in 1..Len(options) |-> options[i].symbol = symbol]

\* arr.find(predicate), the predicate given by its value at each index.
FindFirst(arr, matches) ==
  LET idx == { i \in 1..Len(arr) : matches[i] }
  IN  IF idx = {} THEN Null
      ELSE arr[CHOOSE i \in idx : \A j \in idx : i <= j]

RECURSIVE SumOver(_, _)
SumOver(S, f) ==
  IF S = {} THEN Zero
  ELSE LET x == CHOOSE y \in S : TRUE
       IN  fAdd(f[x], SumOver(S \ {x}, f))

DaysToExpiry == <<7, 14, 21, 30, 45>>

MarketTable ==
  ("US.SPY" :> <<34012, 33700, 33847, 33613, 33439, 33646, 33637, 33750, 33326, 33377, 33740, 33577, 33146, 32912, 32738, 32766, 32582, 32778, 32393, 32842, 32384, 32513, 32746, 32969, 33307>>) @@
     ("US.QQQ" :> <<35394, 35821>>)

\* The second symbol's prices in a run to 2025-06-02 (day 884).
MarketTableLongRun == ("US.QQQ" :> <<10439, 10501, 10487>>)

\* The chain of one market row, found by its symbol, date and price in
\* cents: a row for each of DaysToExpiry.
ChainTable(symbol, date, cents) ==
  CASE symbol = "US.SPY" /\ date = 1 -> << \* 2023-01-01, spot 340.12
        [ \* 7 days to expiry
          callPrice |-> <<4046, 3553, 3069, 2598, 2149, 1730, 1351, 1021, 744, 522, 352, 228, 141, 84, 48, 26, 14>>,
          callDelta |-> <<9919, 9818, 9630, 9313, 8830, 8156, 7297, 6291, 5204, 4118, 3109, 2237, 1533, 1000, 621, 368, 208>>,
          putPrice |-> <<5, 12, 27, 56, 106, 187, 308, 477, 700, 977, 1306, 1682, 2095, 2537, 3000, 3478, 3965>>,
          putDelta |-> <<-81, -182, -370, -687, -1170, -1844, -2703, -3709, -4796, -5882, -6891, -7763, -8467, -9000, -9379, -9632, -9792>> ],
        [ \* 14 days to expiry
          callPrice |-> <<4114, 3646, 3193, 2761, 2353, 1976, 1633, 1327, 1059, 830, 639, 483, 358, 260, 186, 130, 89>>,
          callDelta |-> <<9582, 9346, 9023, 8604, 8087, 7477, 6788, 6043, 5270, 4498, 3755, 3066, 2446, 1909, 1456, 1087, 793>>,
          putPrice |-> <<45, 75, 122, 188, 280, 402, 558, 750, 982, 1252, 1560, 1903, 2277, 2678, 3103, 3546, 4004>>,
          putDelta |-> <<-418, -654, -977, -1396, -1913, -2523, -3212, -3957, -4730, -5502, -6245, -6934, -7554, -8091, -8544, -8913, -9207>> ],
        [ \* 21 days to expiry
          callPrice |-> <<4208, 3761, 3333, 2926, 2543, 2188, 1862, 1567, 1304, 1073, 872, 701, 557, 437, 339, 260, 197>>,
          callDelta |-> <<9249, 8960, 8606, 8184, 7699, 7158, 6572, 5955, 5323, 4692, 4078, 3493, 2950, 2456, 2016, 1632, 1303>>,
          putPrice |-> <<110, 162, 232, 323, 439, 582, 755, 959, 1195, 1462, 1760, 2087, 2441, 2820, 3220, 3640, 4076>>,
          putDelta |-> <<-751, -1040, -1394, -1816, -2301, -2842, -3428, -4045, -4677, -5308, -5922, -6507, -7050, -7544, -7984, -8368, -8697>> ],
        [ \* 30 days to expiry
          callPrice |-> <<4342, 3917, 3512, 3127, 2764, 2426, 2114, 1828, 1568, 1335, 1128, 946, 787, 650, 532, 433, 349>>,
          callDelta |-> <<8909, 8602, 8248, 7848, 7408, 6932, 6430, 5910, 5381, 4853, 4335, 3836, 3361, 2918, 2509, 2138, 1804>>,
          putPrice |-> <<207, 280, 373, 485, 621, 781, 966, 1178, 1417, 1682, 1973, 2288, 2627, 2988, 3368, 3767, 4181>>,
          putDelta |-> <<-1091, -1398, -1752, -2152, -2592, -3068, -3570, -4090, -4619, -5147, -5665, -6164, -6639, -7082, -7491, -7862, -8196>> ],
        [ \* 45 days to expiry
          callPrice |-> <<4571, 4173, 3792, 3431, 3089, 2769, 2470, 2192, 1937, 1703, 1490, 1298, 1125, 970, 833, 712, 606>>,
          callDelta |-> <<8515, 8214, 7882, 7523, 7139, 6737, 6319, 5892, 5461, 5030, 4606, 4191, 3792, 3409, 3048, 2709, 2394>>,
          putPrice |-> <<375, 473, 590, 725, 881, 1057, 1255, 1474, 1716, 1979, 2263, 2567, 2891, 3234, 3594, 3970, 4360>>,
          putDelta |-> <<-1485, -1786, -2118, -2477, -2861, -3263, -3681, -4108, -4539, -4970, -5394, -5809, -6208, -6591, -6952, -7291, -7606>> ]
       >>
    [] symbol = "US.SPY" /\ date = 2 -> << \* 2023-01-02, spot 337.00
        [ \* 7 days to expiry
          callPrice |-> <<4228, 3729, 3230, 2732, 2239, 1760, 1309, 909, 581, 338, 177, 83, 34, 13, 4, 1, 1>>,
          callDelta |-> <<10000, 9997, 9986, 9938, 9788, 9414, 8667, 7461, 5871, 4147, 2596, 1429, 688, 290, 107, 35, 10>>,
          putPrice |-> <<1, 1, 1, 2, 9, 29, 78, 178, 349, 605, 944, 1349, 1800, 2278, 2769, 3266, 3764>>,
          putDelta |-> <<0, -3, -14, -62, -212, -586, -1333, -2539, -4129, -5853, -7404, -8571, -9312, -9710, -9893, -9965, -9990>> ],
        [ \* 14 days to expiry
          callPrice |-> <<4258, 3761, 3268, 2783, 2313, 1866, 1456, 1092, 785, 538, 351, 218, 128, 71, 37, 19, 9>>,
          callDelta |-> <<9977, 9935, 9837, 9641, 9289, 8728, 7932, 6916, 5744, 4521, 3359, 2349, 1544, 954, 553, 302, 155>>,
          putPrice |-> <<1, 3, 10, 24, 52, 105, 193, 329, 521, 773, 1085, 1451, 1860, 2302, 2767, 3248, 3737>>,
          putDelta |-> <<-23, -65, -163, -359, -711, -1272, -2068, -3084, -4256, -5479, -6641, -7651, -8456, -9046, -9447, -9698, -9845>> ],
        [ \* 21 days to expiry
          callPrice |-> <<4291, 3801, 3319, 2849, 2399, 1976, 1589, 1243, 945, 697, 498, 344, 230, 149, 93, 56, 33>>,
          callDelta |-> <<9903, 9799, 9618, 9326, 8895, 8307, 7561, 6681, 5712, 4712, 3745, 2863, 2104, 1486, 1009, 659, 414>>,
          putPrice |-> <<7, 15, 31, 60, 109, 184, 295, 449, 649, 900, 1199, 1544, 1928, 2345, 2788, 3250, 3725>>,
          putDelta |-> <<-97, -201, -382, -674, -1105, -1693, -2439, -3319, -4288, -5288, -6255, -7137, -7896, -8514, -8991, -9341, -9586>> ],
        [ \* 30 days to expiry
          callPrice |-> <<4343, 3863, 3395, 2943, 2514, 2112, 1743, 1411, 1120, 871, 662, 493, 359, 255, 178, 121, 80>>,
          callDelta |-> <<9764, 9595, 9345, 8996, 8537, 7963, 7286, 6523, 5707, 4871, 4053, 3285, 2593, 1993, 1492, 1088, 773>>,
          putPrice |-> <<22, 40, 70, 116, 185, 281, 410, 576, 783, 1031, 1321, 1649, 2013, 2408, 2828, 3269, 3727>>,
          putDelta |-> <<-236, -405, -655, -1004, -1463, -2037, -2714, -3477, -4293, -5129, -5947, -6715, -7407, -8007, -8508, -8912, -9227>> ],
        [ \* 45 days to expiry
          callPrice |-> <<4442, 3980, 3533, 3105, 2699, 2320, 1969, 1651, 1366, 1116, 899, 714, 559, 432, 329, 247, 183>>,
          callDelta |-> <<9513, 9283, 8982, 8606, 8152, 7626, 7037, 6398, 5728, 5047, 4375, 3729, 3125, 2576, 2087, 1664, 1305>>,
          putPrice |-> <<61, 96, 146, 214, 306, 423, 570, 748, 961, 1207, 1487, 1799, 2141, 2511, 2905, 3320, 3753>>,
          putDelta |-> <<-487, -717, -1018, -1394, -1848, -2374, -2963, -3602, -4272, -4953, -5625, -6271, -6875, -7424, -7913, -8336, -8695>> ]
       >>
    [] symbol = "US.SPY" /\ date = 3 -> << \* 2023-01-03, spot 338.47
        [ \* 7 days to expiry
          callPrice |-> <<4376, 3877, 3380, 2888, 2405, 1942, 1510, 1124, 795, 532, 336, 199, 110, 57, 28, 12, 5>>,
          callDelta |-> <<9993, 9975, 9924, 9801, 9544, 9081, 8349, 7337, 6102, 4763, 3469, 2347, 1473, 856, 461, 230, 106>>,
          putPrice |-> <<1, 1, 4, 11, 28, 64, 132, 245, 416, 653, 956, 1318, 1729, 2176, 2646, 3130, 3622>>,
          putDelta |-> <<-7, -25, -76, -199, -456, -919, -1651, -2663, -3898, -5237, -6531, -7653, -8527, -9144, -9539, -9770, -9894>> ],
        [ \* 14 days to expiry
          callPrice |-> <<4412, 3922, 3440, 2971, 2522, 2098, 1707, 1356, 1050, 792, 580, 412, 285, 191, 124, 78, 48>>,
          callDelta |-> <<9889, 9781, 9598, 9312, 8898, 8341, 7641, 6817, 5905, 4956, 4023, 3154, 2388, 1745, 1230, 837, 550>>,
          putPrice |-> <<8, 17, 35, 65, 114, 189, 298, 446, 639, 879, 1167, 1498, 1870, 2275, 2707, 3160, 3629>>,
          putDelta |-> <<-111, -219, -402, -688, -1102, -1659, -2359, -3183, -4095, -5044, -5977, -6846, -7612, -8255, -8770, -9163, -9450>> ],
        [ \* 21 days to expiry
          callPrice |-> <<4461, 3985, 3521, 3073, 2648, 2248, 1880, 1547, 1251, 994, 776, 594, 447, 330, 239, 169, 118>>,
          callDelta |-> <<9708, 9527, 9268, 8921, 8476, 7933, 7300, 6594, 5840, 5065, 4298, 3568, 2896, 2298, 1783, 1353, 1004>>,
          putPrice |-> <<30, 52, 86, 137, 210, 309, 440, 605, 808, 1050, 1330, 1647, 1998, 2379, 2787, 3216, 3663>>,
          putDelta |-> <<-292, -473, -732, -1079, -1524, -2067, -2700, -3406, -4160, -4935, -5702, -6432, -7104, -7702, -8217, -8647, -8996>> ],
        [ \* 30 days to expiry
          callPrice |-> <<4540, 4080, 3635, 3209, 2806, 2427, 2077, 1757, 1469, 1214, 991, 799, 636, 500, 388, 298, 226>>,
          callDelta |-> <<9464, 9230, 8930, 8560, 8121, 7616, 7054, 6447, 5811, 5163, 4520, 3898, 3311, 2771, 2284, 1855, 1484>>,
          putPrice |-> <<72, 110, 163, 235, 329, 449, 596, 775, 985, 1227, 1502, 1808, 2143, 2505, 2891, 3299, 3725>>,
          putDelta |-> <<-536, -770, -1070, -1440, -1879, -2384, -2946, -3553, -4189, -4837, -5480, -6102, -6689, -7229, -7716, -8145, -8516>> ],
        [ \* 45 days to expiry
          callPrice |-> <<4688, 4252, 3832, 3431, 3051, 2694, 2362, 2055, 1775, 1521, 1294, 1092, 914, 760, 627, 513, 417>>,
          callDelta |-> <<9119, 8851, 8535, 8172, 7764, 7317, 6836, 6330, 5809, 5280, 4755, 4241, 3746, 3278, 2841, 2440, 2076>>,
          putPrice |-> <<160, 220, 297, 393, 510, 650, 815, 1005, 1222, 1465, 1735, 2030, 2349, 2692, 3055, 3439, 3839>>,
          putDelta |-> <<-881, -1149, -1465, -1828, -2236, -2683, -3164, -3670, -4191, -4720, -5245, -5759, -6254, -6722, -7159, -7560, -7924>> ]
       >>
    [] symbol = "US.SPY" /\ date = 4 -> << \* 2023-01-04, spot 336.13
        [ \* 7 days to expiry
          callPrice |-> <<4148, 3656, 3174, 2705, 2256, 1838, 1457, 1121, 836, 603, 420, 282, 182, 114, 68, 39, 22>>,
          callDelta |-> <<9903, 9795, 9602, 9288, 8822, 8184, 7379, 6438, 5416, 4381, 3401, 2530, 1803, 1230, 804, 504, 302>>,
          putPrice |-> <<6, 15, 31, 62, 113, 194, 313, 477, 691, 957, 1274, 1635, 2035, 2466, 2920, 3391, 3873>>,
          putDelta |-> <<-97, -205, -398, -712, -1178, -1816, -2621, -3562, -4584, -5619, -6599, -7470, -8197, -8770, -9196, -9496, -9698>> ],
        [ \* 14 days to expiry
          callPrice |-> <<4222, 3757, 3307, 2877, 2471, 2094, 1750, 1440, 1167, 931, 731, 564, 428, 320, 235, 169, 120>>,
          callDelta |-> <<9541, 9301, 8982, 8576, 8080, 7502, 6852, 6151, 5422, 4689, 3976, 3306, 2694, 2153, 1686, 1295, 976>>,
          putPrice |-> <<53, 86, 135, 204, 298, 420, 575, 764, 990, 1253, 1551, 1884, 2247, 2638, 3052, 3486, 3936>>,
          putDelta |-> <<-459, -699, -1018, -1424, -1920, -2498, -3148, -3849, -4578, -5311, -6024, -6694, -7306, -7847, -8314, -8705, -9024>> ],
        [ \* 21 days to expiry
          callPrice |-> <<4324, 3881, 3456, 3051, 2670, 2316, 1989, 1692, 1425, 1187, 980, 800, 647, 517, 409, 321, 249>>,
          callDelta |-> <<9196, 8910, 8564, 8158, 7695, 7181, 6628, 6046, 5448, 4850, 4263, 3701, 3172, 2685, 2244, 1853, 1512>>,
          putPrice |-> <<126, 182, 255, 349, 467, 611, 783, 984, 1215, 1477, 1768, 2086, 2432, 2801, 3192, 3602, 4028>>,
          putDelta |-> <<-804, -1090, -1436, -1842, -2305, -2819, -3372, -3954, -4552, -5150, -5737, -6299, -6828, -7315, -7756, -8147, -8488>> ],
        [ \* 30 days to expiry
          callPrice |-> <<4467, 4047, 3645, 3262, 2902, 2565, 2252, 1964, 1702, 1464, 1251, 1062, 896, 750, 624, 516, 424>>,
          callDelta |-> <<8852, 8552, 8208, 7825, 7405, 6954, 6479, 5987, 5487, 4987, 4494, 4015, 3558, 3126, 2724, 2355, 2019>>,
          putPrice |-> <<233, 311, 406, 522, 660, 821, 1006, 1216, 1451, 1712, 1997, 2306, 2637, 2990, 3361, 3751, 4157>>,
          putDelta |-> <<-1148, -1448, -1792, -2175, -2595, -3046, -3521, -4013, -4513, -5013, -5506, -5985, -6442, -6874, -7276, -7645, -7981>> ],
        [ \* 45 days to expiry
          callPrice |-> <<4711, 4317, 3940, 3581, 3242, 2923, 2624, 2346, 2088, 1851, 1634, 1436, 1258, 1097, 952, 824, 710>>,
          callDelta |-> <<8460, 8167, 7847, 7504, 7139, 6757, 6362, 5958, 5550, 5142, 4738, 4343, 3960, 3592, 3242, 2910, 2600>>,
          putPrice |-> <<416, 519, 639, 778, 935, 1113, 1311, 1530, 1769, 2029, 2309, 2608, 2926, 3262, 3615, 3983, 4366>>,
          putDelta |-> <<-1540, -1833, -2153, -2496, -2861, -3243, -3638, -4042, -4450, -4858, -5262, -5657, -6040, -6408, -6758, -7090, -7400>> ]
       >>
    [] symbol = "US.SPY" /\ date = 5 -> << \* 2023-01-05, spot 334.39
        [ \* 7 days to expiry
          callPrice |-> <<4467, 3968, 3471, 2979, 2495, 2029, 1593, 1199, 861, 587, 378, 229, 130, 70, 35, 16, 7>>,
          callDelta |-> <<9993, 9976, 9929, 9815, 9578, 9147, 8462, 7505, 6320, 5013, 3724, 2580, 1662, 996, 554, 287, 138>>,
          putPrice |-> <<1, 1, 4, 10, 26, 60, 123, 229, 391, 616, 906, 1257, 1658, 2097, 2561, 3042, 3533>>,
          putDelta |-> <<-7, -24, -71, -185, -422, -853, -1538, -2495, -3680, -4987, -6276, -7420, -8338, -9004, -9446, -9713, -9862>> ],
        [ \* 14 days to expiry
          callPrice |-> <<4503, 4013, 3530, 3061, 2609, 2182, 1787, 1431, 1118, 851, 631, 455, 318, 217, 143, 92, 57>>,
          callDelta |-> <<9892, 9788, 9613, 9340, 8945, 8413, 7741, 6947, 6062, 5133, 4210, 3342, 2565, 1903, 1364, 946, 634>>,
          putPrice |-> <<8, 17, 34, 63, 110, 183, 287, 430, 616, 848, 1127, 1449, 1812, 2210, 2635, 3083, 3547>>,
          putDelta |-> <<-108, -212, -387, -660, -1055, -1587, -2259, -3053, -3938, -4867, -5790, -6658, -7435, -8097, -8636, -9054, -9366>> ],
        [ \* 21 days to expiry
          callPrice |-> <<4552, 4075, 3610, 3162, 2734, 2332, 1960, 1622, 1321, 1058, 832, 643, 489, 364, 267, 192, 136>>,
          callDelta |-> <<9714, 9538, 9288, 8953, 8524, 8000, 7388, 6704, 5969, 5209, 4454, 3728, 3054, 2449, 1921, 1476, 1110>>,
          putPrice |-> <<30, 51, 85, 135, 206, 302, 429, 590, 787, 1022, 1296, 1605, 1949, 2323, 2724, 3148, 3590>>,
          putDelta |-> <<-286, -462, -712, -1047, -1476, -2001, -2612, -3296, -4031, -4791, -5546, -6272, -6946, -7551, -8079, -8524, -8890>> ],
        [ \* 30 days to expiry
          callPrice |-> <<4630, 4170, 3725, 3297, 2892, 2511, 2157, 1834, 1541, 1281, 1052, 854, 685, 543, 425, 329, 252>>,
          callDelta |-> <<9472, 9243, 8952, 8593, 8167, 7677, 7131, 6540, 5919, 5284, 4650, 4035, 3451, 2909, 2417, 1980, 1600>>,
          putPrice |-> <<72, 110, 163, 233, 326, 443, 587, 761, 967, 1204, 1473, 1773, 2102, 2458, 2839, 3240, 3661>>,
          putDelta |-> <<-528, -757, -1048, -1407, -1833, -2323, -2869, -3460, -4081, -4716, -5350, -5965, -6549, -7091, -7583, -8020, -8400>> ],
        [ \* 45 days to expiry
          callPrice |-> <<4778, 4341, 3921, 3519, 3138, 2779, 2444, 2134, 1851, 1593, 1361, 1154, 972, 813, 674, 555, 454>>,
          callDelta |-> <<9128, 8866, 8557, 8203, 7806, 7370, 6901, 6408, 5897, 5379, 4862, 4355, 3865, 3399, 2963, 2560, 2192>>,
          putPrice |-> <<161, 221, 298, 393, 508, 646, 808, 996, 1209, 1448, 1713, 2003, 2318, 2655, 3014, 3392, 3788>>,
          putDelta |-> <<-872, -1134, -1443, -1797, -2194, -2630, -3099, -3592, -4103, -4621, -5138, -5645, -6135, -6601, -7037, -7440, -7808>> ]
       >>
    [] symbol = "US.SPY" /\ date = 6 -> << \* 2023-01-06, spot 336.46
        [ \* 7 days to expiry
          callPrice |-> <<4174, 3675, 3175, 2676, 2176, 1678, 1190, 739, 379, 151, 44, 9, 1, 1, 1, 1, 1>>,
          callDelta |-> <<10000, 10000, 10000, 10000, 9993, 9928, 9563, 8368, 6040, 3288, 1272, 339, 62, 8, 1, 0, 0>>,
          putPrice |-> <<1, 1, 1, 1, 1, 2, 13, 61, 200, 472, 865, 1330, 1821, 2320, 2819, 3319, 3818>>,
          putDelta |-> <<0, 0, 0, 0, -7, -72, -437, -1632, -3960, -6712, -8728, -9661, -9938, -9992, -9999, -10000, -10000>> ],
        [ \* 14 days to expiry
          callPrice |-> <<4203, 3703, 3205, 2706, 2210, 1723, 1259, 846, 511, 272, 125, 50, 17, 5, 1, 1, 1>>,
          callDelta |-> <<10000, 10000, 9997, 9978, 9894, 9618, 8941, 7684, 5895, 3922, 2218, 1054, 418, 138, 38, 9, 2>>,
          putPrice |-> <<1, 1, 1, 1, 4, 15, 51, 137, 300, 560, 913, 1337, 1803, 2290, 2785, 3283, 3782>>,
          putDelta |-> <<0, 0, -3, -22, -106, -382, -1059, -2316, -4105, -6078, -7782, -8946, -9582, -9862, -9962, -9991, -9998>> ],
        [ \* 21 days to expiry
          callPrice |-> <<4231, 3732, 3235, 2739, 2250, 1776, 1333, 940, 616, 372, 205, 102, 46, 19, 7, 2, 1>>,
          callDelta |-> <<9999, 9994, 9975, 9907, 9721, 9304, 8536, 7361, 5860, 4243, 2766, 1612, 838, 387, 160, 59, 19>>,
          putPrice |-> <<1, 1, 1, 4, 13, 38, 94, 199, 374, 628, 959, 1356, 1798, 2269, 2756, 3250, 3747>>,
          putDelta |-> <<-1, -6, -25, -93, -279, -696, -1464, -2639, -4140, -5757, -7234, -8388, -9162, -9613, -9840, -9941, -9981>> ],
        [ \* 30 days to expiry
          callPrice |-> <<4267, 3770, 3275, 2786, 2307, 1849, 1425, 1049, 733, 483, 300, 174, 95, 48, 23, 10, 4>>,
          callDelta |-> <<9992, 9971, 9913, 9775, 9490, 8984, 8199, 7134, 5858, 4503, 3223, 2139, 1314, 746, 392, 191, 86>>,
          putPrice |-> <<1, 1, 4, 12, 32, 72, 146, 267, 449, 698, 1012, 1385, 1803, 2254, 2727, 3212, 3704>>,
          putDelta |-> <<-8, -29, -87, -225, -510, -1016, -1801, -2866, -4142, -5497, -6777, -7861, -8686, -9254, -9608, -9809, -9914>> ],
        [ \* 45 days to expiry
          callPrice |-> <<4330, 3837, 3349, 2871, 2409, 1972, 1568, 1208, 899, 645, 444, 294, 186, 113, 66, 37, 19>>,
          callDelta |-> <<9956, 9893, 9767, 9539, 9166, 8614, 7866, 6941, 5888, 4783, 3710, 2743, 1930, 1292, 823, 499, 288>>,
          putPrice |-> <<3, 7, 16, 35, 70, 129, 223, 360, 547, 790, 1086, 1433, 1822, 2246, 2695, 3163, 3643>>,
          putDelta |-> <<-44, -107, -233, -461, -834, -1386, -2134, -3059, -4112, -5217, -6290, -7257, -8070, -8708, -9177, -9501, -9712>> ]
       >>
    [] symbol = "US.SPY" /\ date = 7 -> << \* 2023-01-07, spot 336.37
        [ \* 7 days to expiry
          callPrice |-> <<4165, 3666, 3166, 2667, 2168, 1672, 1190, 752, 403, 176, 60, 16, 3, 1, 1, 1, 1>>,
          callDelta |-> <<10000, 10000, 10000, 9998, 9980, 9860, 9372, 8092, 5903, 3414, 1500, 489, 118, 21, 3, 0, 0>>,
          putPrice |-> <<1, 1, 1, 1, 1, 4, 22, 83, 234, 506, 890, 1345, 1832, 2329, 2828, 3328, 3827>>,
          putDelta |-> <<0, 0, 0, -2, -20, -140, -628, -1908, -4097, -6586, -8500, -9511, -9882, -9979, -9997, -10000, -10000>> ],
        [ \* 14 days to expiry
          callPrice |-> <<4194, 3695, 3196, 2698, 2205, 1725, 1273, 873, 548, 310, 157, 70, 28, 10, 3, 1, 1>>,
          callDelta |-> <<10000, 9998, 9989, 9947, 9808, 9443, 8687, 7441, 5788, 4007, 2434, 1286, 589, 233, 80, 24, 6>>,
          putPrice |-> <<1, 1, 1, 2, 8, 27, 74, 173, 347, 608, 954, 1366, 1823, 2304, 2796, 3293, 3791>>,
          putDelta |-> <<0, -2, -11, -53, -192, -557, -1313, -2559, -4212, -5993, -7566, -8714, -9411, -9767, -9920, -9976, -9994>> ],
        [ \* 21 days to expiry
          callPrice |-> <<4222, 3724, 3227, 2734, 2251, 1788, 1358, 978, 663, 420, 247, 135, 68, 31, 13, 5, 2>>,
          callDelta |-> <<9996, 9983, 9942, 9829, 9574, 9083, 8277, 7144, 5765, 4306, 2955, 1855, 1062, 555, 264, 115, 46>>,
          putPrice |-> <<1, 1, 3, 8, 24, 59, 127, 246, 430, 686, 1011, 1397, 1829, 2291, 2772, 3262, 3757>>,
          putDelta |-> <<-4, -17, -58, -171, -426, -917, -1723, -2856, -4235, -5694, -7045, -8145, -8938, -9445, -9736, -9885, -9954>> ],
        [ \* 30 days to expiry
          callPrice |-> <<4259, 3763, 3272, 2787, 2318, 1872, 1461, 1098, 790, 542, 355, 220, 129, 72, 38, 19, 9>>,
          callDelta |-> <<9977, 9935, 9839, 9645, 9296, 8741, 7949, 6938, 5770, 4548, 3384, 2371, 1562, 967, 562, 307, 158>>,
          putPrice |-> <<1, 3, 9, 23, 51, 104, 191, 325, 515, 766, 1076, 1440, 1847, 2288, 2751, 3230, 3718>>,
          putDelta |-> <<-23, -65, -161, -355, -704, -1259, -2051, -3062, -4230, -5452, -6616, -7629, -8438, -9033, -9438, -9693, -9842>> ],
        [ \* 45 days to expiry
          callPrice |-> <<4324, 3835, 3354, 2885, 2434, 2010, 1620, 1272, 970, 718, 515, 358, 240, 156, 98, 59, 35>>,
          callDelta |-> <<9909, 9810, 9636, 9356, 8939, 8365, 7634, 6766, 5805, 4809, 3838, 2947, 2176, 1545, 1054, 692, 437>>,
          putPrice |-> <<6, 14, 29, 57, 103, 176, 283, 432, 627, 872, 1166, 1505, 1885, 2297, 2736, 3195, 3667>>,
          putDelta |-> <<-91, -190, -364, -644, -1061, -1635, -2366, -3234, -4195, -5191, -6162, -7053, -7824, -8455, -8946, -9308, -9563>> ]
       >>
    [] symbol = "US.SPY" /\ date = 8 -> << \* 2023-01-08, spot 337.50
        [ \* 7 days to expiry
          callPrice |-> <<4278, 3779, 3280, 2782, 2288, 1806, 1351, 944, 607, 355, 187, 88, 36, 13, 4, 1, 1>>,
          callDelta |-> <<10000, 9998, 9989, 9949, 9818, 9479, 8779, 7617, 6048, 4311, 2720, 1507, 729, 308, 114, 37, 10>>,
          putPrice |-> <<1, 1, 1, 2, 8, 25, 70, 162, 325, 572, 904, 1304, 1752, 2229, 2719, 3216, 3714>>,
          putDelta |-> <<0, -2, -11, -51, -182, -521, -1221, -2383, -3952, -5689, -7280, -8493, -9271, -9692, -9886, -9963, -9990>> ],
        [ \* 14 days to expiry
          callPrice |-> <<4307, 3810, 3317, 2830, 2357, 1907, 1491, 1122, 808, 555, 363, 225, 132, 73, 39, 19, 9>>,
          callDelta |-> <<9981, 9944, 9857, 9676, 9346, 8812, 8039, 7038, 5871, 4639, 3457, 2424, 1596, 986, 572, 311, 159>>,
          putPrice |-> <<1, 3, 8, 21, 47, 96, 179, 309, 494, 740, 1047, 1408, 1814, 2254, 2719, 3198, 3687>>,
          putDelta |-> <<-19, -56, -143, -324, -654, -1188, -1961, -2962, -4129, -5361, -6543, -7576, -8404, -9014, -9428, -9689, -9841>> ],
        [ \* 21 days to expiry
          callPrice |-> <<4340, 3849, 3365, 2894, 2441, 2014, 1621, 1271, 967, 714, 510, 353, 236, 152, 95, 57, 33>>,
          callDelta |-> <<9914, 9819, 9650, 9375, 8962, 8390, 7657, 6784, 5815, 4809, 3829, 2931, 2156, 1523, 1033, 673, 422>>,
          putPrice |-> <<6, 13, 28, 55, 100, 172, 278, 426, 621, 866, 1161, 1502, 1884, 2299, 2740, 3201, 3675>>,
          putDelta |-> <<-86, -181, -350, -625, -1038, -1610, -2343, -3216, -4185, -5191, -6171, -7069, -7844, -8477, -8967, -9327, -9578>> ],
        [ \* 30 days to expiry
          callPrice |-> <<4390, 3909, 3439, 2985, 2552, 2146, 1772, 1436, 1141, 887, 675, 502, 365, 259, 180, 122, 81>>,
          callDelta |-> <<9784, 9626, 9388, 9052, 8605, 8042, 7371, 6612, 5794, 4952, 4125, 3346, 2642, 2030, 1518, 1106, 784>>,
          putPrice |-> <<19, 36, 64, 108, 173, 265, 389, 551, 753, 997, 1283, 1608, 1969, 2362, 2780, 3221, 3677>>,
          putDelta |-> <<-216, -374, -612, -948, -1395, -1958, -2629, -3388, -4206, -5048, -5875, -6654, -7358, -7970, -8482, -8894, -9216>> ],
        [ \* 45 days to expiry
          callPrice |-> <<4487, 4023, 3574, 3142, 2733, 2350, 1996, 1674, 1385, 1131, 910, 723, 566, 437, 332, 249, 184>>,
          callDelta |-> <<9544, 9323, 9031, 8663, 8217, 7697, 7110, 6472, 5800, 5114, 4434, 3780, 3168, 2610, 2114, 1683, 1318>>,
          putPrice |-> <<56, 89, 136, 202, 290, 403, 546, 721, 929, 1172, 1448, 1758, 2098, 2465, 2858, 3272, 3704>>,
          putDelta |-> <<-456, -677, -969, -1337, -1783, -2303, -2890, -3528, -4200, -4886, -5566, -6220, -6832, -7390, -7886, -8317, -8682>> ]
       >>
    [] symbol = "US.SPY" /\ date = 9 -> << \* 2023-01-09, spot 333.26
        [ \* 7 days to expiry
          callPrice |-> <<4359, 3866, 3381, 2907, 2452, 2022, 1627, 1274, 969, 714, 509, 351, 234, 150, 93, 56, 32>>,
          callDelta |-> <<9921, 9831, 9668, 9399, 8992, 8425, 7694, 6819, 5843, 4829, 3840, 2934, 2152, 1515, 1024, 664, 414>>,
          putPrice |-> <<5, 12, 26, 52, 96, 166, 271, 417, 611, 856, 1150, 1492, 1874, 2290, 2733, 3195, 3671>>,
          putDelta |-> <<-79, -169, -332, -601, -1008, -1575, -2306, -3181, -4157, -5171, -6160, -7066, -7848, -8485, -8976, -9336, -9586>> ],
        [ \* 14 days to expiry
          callPrice |-> <<4429, 3960, 3506, 3070, 2656, 2270, 1913, 1591, 1303, 1052, 836, 655, 504, 382, 286, 210, 152>>,
          callDelta |-> <<9589, 9373, 9083, 8710, 8252, 7712, 7100, 6431, 5726, 5008, 4300, 3624, 2997, 2432, 1937, 1514, 1162>>,
          putPrice |-> <<48, 78, 122, 185, 271, 383, 526, 703, 914, 1162, 1445, 1762, 2111, 2488, 2891, 3314, 3755>>,
          putDelta |-> <<-411, -627, -917, -1290, -1748, -2288, -2900, -3569, -4274, -4992, -5700, -6376, -7003, -7568, -8063, -8486, -8838>> ],
        [ \* 21 days to expiry
          callPrice |-> <<4526, 4080, 3650, 3239, 2851, 2488, 2151, 1843, 1565, 1315, 1095, 903, 737, 596, 477, 379, 297>>,
          callDelta |-> <<9258, 8993, 8670, 8289, 7853, 7366, 6837, 6277, 5698, 5112, 4532, 3970, 3437, 2940, 2485, 2076, 1714>>,
          putPrice |-> <<117, 169, 238, 326, 436, 571, 733, 924, 1144, 1393, 1671, 1978, 2311, 2668, 3048, 3448, 3865>>,
          putDelta |-> <<-742, -1007, -1330, -1711, -2147, -2634, -3163, -3723, -4302, -4888, -5468, -6030, -6563, -7060, -7515, -7924, -8286>> ],
        [ \* 30 days to expiry
          callPrice |-> <<4667, 4242, 3835, 3447, 3080, 2736, 2415, 2118, 1846, 1599, 1376, 1176, 999, 843, 708, 590, 489>>,
          callDelta |-> <<8921, 8637, 8312, 7948, 7547, 7115, 6658, 6183, 5696, 5207, 4721, 4246, 3789, 3354, 2946, 2568, 2221>>,
          putPrice |-> <<222, 295, 386, 496, 627, 781, 958, 1159, 1385, 1635, 1910, 2209, 2530, 2872, 3234, 3614, 4011>>,
          putDelta |-> <<-1079, -1363, -1688, -2052, -2453, -2885, -3342, -3817, -4304, -4793, -5279, -5754, -6211, -6646, -7054, -7432, -7779>> ],
        [ \* 45 days to expiry
          callPrice |-> <<4907, 4509, 4128, 3765, 3420, 3095, 2789, 2504, 2239, 1994, 1769, 1563, 1375, 1206, 1053, 917, 795>>,
          callDelta |-> <<8530, 8250, 7944, 7614, 7263, 6894, 6512, 6119, 5722, 5322, 4926, 4536, 4156, 3789, 3437, 3103, 2789>>,
          putPrice |-> <<403, 502, 618, 751, 904, 1075, 1266, 1478, 1710, 1962, 2234, 2525, 2834, 3162, 3506, 3866, 4241>>,
          putDelta |-> <<-1470, -1750, -2056, -2386, -2737, -3106, -3488, -3881, -4278, -4678, -5074, -5464, -5844, -6211, -6563, -6897, -7211>> ]
       >>
    [] symbol = "US.SPY" /\ date = 10 -> << \* 2023-01-10, spot 333.77
        [ \* 7 days to expiry
          callPrice |-> <<4405, 3905, 3406, 2906, 2408, 1915, 1437, 997, 624, 345, 165, 68, 23, 7, 2, 1, 1>>,
          callDelta |-> <<10000, 10000, 9999, 9992, 9951, 9789, 9322, 8316, 6690, 4686, 2787, 1384, 569, 193, 54, 13, 2>>,
          putPrice |-> <<1, 1, 1, 1, 2, 8, 29, 89, 215, 436, 756, 1158, 1613, 2096, 2590, 3088, 3588>>,
          putDelta |-> <<0, 0, -1, -8, -49, -211, -678, -1684, -3310, -5314, -7213, -8616, -9431, -9807, -9946, -9987, -9998>> ],
        [ \* 14 days to expiry
          callPrice |-> <<4433, 3934, 3436, 2941, 2454, 1981, 1537, 1136, 794, 521, 319, 181, 96, 47, 21, 9, 3>>,
          callDelta |-> <<9997, 9989, 9960, 9879, 9685, 9293, 8619, 7620, 6341, 4912, 3515, 2311, 1391, 766, 386, 178, 75>>,
          putPrice |-> <<1, 1, 2, 6, 17, 44, 98, 196, 353, 579, 877, 1238, 1652, 2102, 2575, 3062, 3555>>,
          putDelta |-> <<-3, -11, -40, -121, -315, -707, -1381, -2380, -3659, -5088, -6485, -7689, -8609, -9234, -9614, -9822, -9925>> ],
        [ \* 21 days to expiry
          callPrice |-> <<4461, 3965, 3472, 2985, 2511, 2059, 1637, 1258, 930, 659, 447, 289, 178, 105, 59, 31, 16>>,
          callDelta |-> <<9979, 9942, 9859, 9691, 9388, 8903, 8203, 7289, 6206, 5037, 3882, 2833, 1955, 1274, 784, 456, 251>>,
          putPrice |-> <<1, 3, 9, 21, 45, 91, 168, 287, 458, 686, 973, 1313, 1701, 2126, 2578, 3049, 3532>>,
          putDelta |-> <<-21, -58, -141, -309, -612, -1097, -1797, -2711, -3794, -4963, -6118, -7167, -8045, -8726, -9216, -9544, -9749>> ],
        [ \* 30 days to expiry
          callPrice |-> <<4501, 4010, 3525, 3051, 2594, 2161, 1759, 1397, 1080, 811, 591, 417, 285, 189, 121, 75, 45>>,
          callDelta |-> <<9924, 9840, 9689, 9443, 9069, 8548, 7870, 7052, 6127, 5149, 4176, 3264, 2456, 1779, 1240, 833, 538>>,
          putPrice |-> <<5, 12, 25, 49, 90, 155, 251, 387, 567, 796, 1074, 1398, 1764, 2166, 2596, 3048, 3516>>,
          putDelta |-> <<-76, -160, -311, -557, -931, -1452, -2130, -2948, -3873, -4851, -5824, -6736, -7544, -8221, -8760, -9167, -9462>> ],
        [ \* 45 days to expiry
          callPrice |-> <<4575, 4095, 3626, 3171, 2736, 2326, 1946, 1600, 1293, 1025, 797, 608, 454, 332, 238, 167, 115>>,
          callDelta |-> <<9784, 9633, 9410, 9098, 8686, 8168, 7550, 6846, 6080, 5281, 4484, 3717, 3009, 2377, 1833, 1380, 1014>>,
          putPrice |-> <<20, 37, 64, 106, 168, 255, 372, 524, 713, 942, 1211, 1519, 1862, 2237, 2640, 3066, 3511>>,
          putDelta |-> <<-216, -367, -590, -902, -1314, -1832, -2450, -3154, -3920, -4719, -5516, -6283, -6991, -7623, -8167, -8620, -8986>> ]
       >>
    [] symbol = "US.SPY" /\ date = 11 -> << \* 2023-01-11, spot 337.40
        [ \* 7 days to expiry
          callPrice |-> <<4276, 3786, 3304, 2837, 2389, 1969, 1585, 1243, 947, 701, 504, 350, 236, 154, 97, 59, 35>>,
          callDelta |-> <<9888, 9775, 9581, 9276, 8832, 8235, 7486, 6612, 5655, 4673, 3725, 2860, 2114, 1504, 1030, 679, 431>>,
          putPrice |-> <<8, 17, 35, 67, 119, 198, 313, 471, 675, 929, 1230, 1577, 1962, 2379, 2822, 3284, 3759>>,
          putDelta |-> <<-112, -225, -419, -724, -1168, -1765, -2514, -3388, -4345, -5327, -6275, -7140, -7886, -8496, -8970, -9321, -9569>> ],
        [ \* 14 days to expiry
          callPrice |-> <<4358, 3895, 3447, 3019, 2614, 2236, 1889, 1575, 1295, 1050, 839, 661, 513, 393, 296, 220, 161>>,
          callDelta |-> <<9503, 9265, 8953, 8562, 8092, 7546, 6937, 6280, 5593, 4898, 4217, 3567, 2965, 2422, 1944, 1533, 1189>>,
          putPrice |-> <<61, 97, 149, 219, 313, 435, 587, 771, 991, 1245, 1533, 1854, 2205, 2584, 2986, 3409, 3849>>,
          putDelta |-> <<-497, -735, -1047, -1438, -1908, -2454, -3063, -3720, -4407, -5102, -5783, -6433, -7035, -7578, -8056, -8467, -8811>> ],
        [ \* 21 days to expiry
          callPrice |-> <<4467, 4028, 3605, 3202, 2823, 2467, 2139, 1838, 1565, 1322, 1106, 917, 753, 613, 495, 396, 314>>,
          callDelta |-> <<9150, 8869, 8534, 8146, 7706, 7222, 6700, 6153, 5590, 5023, 4464, 3923, 3410, 2931, 2492, 2095, 1743>>,
          putPrice |-> <<143, 201, 277, 373, 492, 635, 805, 1003, 1229, 1484, 1767, 2076, 2411, 2770, 3150, 3549, 3966>>,
          putDelta |-> <<-850, -1131, -1466, -1854, -2294, -2778, -3300, -3847, -4410, -4977, -5536, -6077, -6590, -7069, -7508, -7905, -8257>> ],
        [ \* 30 days to expiry
          callPrice |-> <<4621, 4204, 3805, 3425, 3065, 2728, 2414, 2123, 1857, 1614, 1394, 1198, 1023, 868, 733, 615, 513>>,
          callDelta |-> <<8803, 8511, 8181, 7815, 7416, 6990, 6542, 6079, 5607, 5133, 4665, 4207, 3767, 3347, 2953, 2586, 2249>>,
          putPrice |-> <<260, 341, 440, 558, 696, 857, 1040, 1248, 1479, 1734, 2013, 2314, 2637, 2981, 3343, 3723, 4119>>,
          putDelta |-> <<-1197, -1489, -1819, -2185, -2584, -3010, -3458, -3921, -4393, -4867, -5335, -5793, -6233, -6653, -7047, -7414, -7751>> ],
        [ \* 45 days to expiry
          callPrice |-> <<4881, 4490, 4116, 3760, 3422, 3103, 2803, 2523, 2262, 2021, 1799, 1596, 1410, 1242, 1090, 953, 831>>,
          callDelta |-> <<8412, 8130, 7824, 7497, 7151, 6789, 6416, 6035, 5649, 5264, 4881, 4505, 4138, 3784, 3444, 3121, 2816>>,
          putPrice |-> <<459, 566, 689, 829, 988, 1166, 1363, 1580, 1817, 2072, 2347, 2641, 2952, 3281, 3626, 3986, 4360>>,
          putDelta |-> <<-1588, -1870, -2176, -2503, -2849, -3211, -3584, -3965, -4351, -4736, -5119, -5495, -5862, -6216, -6556, -6879, -7184>> ]
       >>
    [] symbol = "US.SPY" /\ date = 12 -> << \* 2023-01-12, spot 335.77
        [ \* 7 days to expiry
          callPrice |-> <<4105, 3606, 3106, 2607, 2108, 1612, 1131, 697, 360, 148, 47, 11, 2, 1, 1, 1, 1>>,
          callDelta |-> <<10000, 10000, 10000, 9998, 9980, 9855, 9328, 7942, 5617, 3084, 1257, 372, 79, 12, 1, 0, 0>>,
          putPrice |-> <<1, 1, 1, 1, 1, 4, 23, 89, 251, 539, 937, 1401, 1891, 2389, 2888, 3388, 3887>>,
          putDelta |-> <<0, 0, 0, -2, -20, -145, -672, -2058, -4383, -6916, -8743, -9628, -9921, -9988, -9999, -10000, -10000>> ],
        [ \* 14 days to expiry
          callPrice |-> <<4134, 3635, 3136, 2638, 2145, 1665, 1214, 819, 501, 275, 133, 57, 21, 7, 2, 1, 1>>,
          callDelta |-> <<10000, 9998, 9990, 9950, 9810, 9432, 8636, 7319, 5588, 3760, 2198, 1106, 477, 176, 56, 15, 4>>,
          putPrice |-> <<1, 1, 1, 2, 8, 26, 75, 178, 360, 633, 990, 1413, 1876, 2361, 2855, 3353, 3851>>,
          putDelta |-> <<0, -2, -10, -50, -190, -568, -1364, -2681, -4412, -6240, -7802, -8894, -9523, -9824, -9944, -9985, -9996>> ],
        [ \* 21 days to expiry
          callPrice |-> <<4162, 3664, 3167, 2674, 2190, 1727, 1298, 922, 614, 380, 217, 114, 55, 24, 10, 4, 1>>,
          callDelta |-> <<9997, 9985, 9946, 9836, 9578, 9070, 8229, 7041, 5603, 4102, 2742, 1666, 917, 457, 207, 85, 32>>,
          putPrice |-> <<1, 1, 2, 8, 23, 58, 128, 251, 441, 705, 1041, 1437, 1876, 2344, 2828, 3320, 3817>>,
          putDelta |-> <<-3, -15, -54, -164, -422, -930, -1771, -2959, -4397, -5898, -7258, -8334, -9083, -9543, -9793, -9915, -9968>> ],
        [ \* 30 days to expiry
          callPrice |-> <<4199, 3703, 3211, 2726, 2256, 1810, 1400, 1040, 737, 497, 318, 192, 110, 59, 30, 14, 7>>,
          callDelta |-> <<9980, 9941, 9849, 9655, 9301, 8729, 7906, 6851, 5637, 4378, 3197, 2188, 1401, 840, 471, 247, 122>>,
          putPrice |-> <<1, 3, 9, 22, 49, 102, 190, 328, 523, 781, 1100, 1472, 1887, 2335, 2803, 3286, 3776>>,
          putDelta |-> <<-20, -59, -151, -345, -699, -1271, -2094, -3149, -4363, -5622, -6803, -7812, -8599, -9160, -9529, -9753, -9878>> ],
        [ \* 45 days to expiry
          callPrice |-> <<4264, 3774, 3291, 2821, 2370, 1946, 1557, 1211, 914, 667, 471, 321, 211, 134, 82, 48, 27>>,
          callDelta |-> <<9917, 9823, 9652, 9371, 8946, 8355, 7598, 6696, 5700, 4672, 3680, 2781, 2015, 1400, 932, 595, 365>>,
          putPrice |-> <<5, 13, 27, 54, 99, 172, 280, 431, 631, 881, 1182, 1529, 1916, 2336, 2780, 3244, 3720>>,
          putDelta |-> <<-83, -177, -348, -629, -1054, -1645, -2402, -3304, -4300, -5328, -6320, -7219, -7985, -8600, -9068, -9405, -9635>> ]
       >>
    [] symbol = "US.SPY" /\ date = 13 -> << \* 2023-01-13, spot 331.46
        [ \* 7 days to expiry
          callPrice |-> <<4175, 3679, 3187, 2705, 2239, 1799, 1397, 1044, 748, 512, 334, 207, 122, 68, 36, 18, 9>>,
          callDelta |-> <<9969, 9916, 9799, 9571, 9179, 8575, 7740, 6701, 5529, 4327, 3200, 2232, 1466, 907, 528, 290, 150>>,
          putPrice |-> <<2, 5, 12, 29, 63, 123, 221, 367, 570, 834, 1155, 1528, 1942, 2388, 2856, 3337, 3827>>,
          putDelta |-> <<-31, -84, -201, -429, -821, -1425, -2260, -3299, -4471, -5673, -6800, -7768, -8534, -9093, -9472, -9710, -9850>> ],
        [ \* 14 days to expiry
          callPrice |-> <<4224, 3744, 3277, 2827, 2400, 2003, 1640, 1316, 1035, 795, 598, 439, 315, 221, 151, 101, 66>>,
          callDelta |-> <<9752, 9573, 9307, 8937, 8449, 7844, 7133, 6340, 5498, 4646, 3823, 3060, 2382, 1804, 1329, 953, 665>>,
          putPrice |-> <<22, 42, 73, 122, 195, 296, 433, 608, 825, 1085, 1387, 1727, 2102, 2507, 2936, 3385, 3849>>,
          putDelta |-> <<-248, -427, -693, -1063, -1551, -2156, -2867, -3660, -4502, -5354, -6177, -6940, -7618, -8196, -8671, -9047, -9335>> ],
        [ \* 21 days to expiry
          callPrice |-> <<4293, 3832, 3387, 2961, 2560, 2186, 1843, 1533, 1258, 1018, 812, 638, 494, 377, 284, 211, 154>>,
          callDelta |-> <<9483, 9237, 8916, 8515, 8035, 7480, 6862, 6199, 5508, 4813, 4133, 3488, 2892, 2356, 1886, 1484, 1148>>,
          putPrice |-> <<64, 101, 154, 228, 325, 449, 605, 794, 1017, 1276, 1568, 1893, 2248, 2630, 3035, 3460, 3902>>,
          putDelta |-> <<-517, -763, -1084, -1485, -1965, -2520, -3138, -3801, -4492, -5187, -5867, -6512, -7108, -7644, -8114, -8516, -8852>> ],
        [ \* 30 days to expiry
          callPrice |-> <<4398, 3957, 3534, 3131, 2751, 2396, 2068, 1769, 1499, 1259, 1047, 862, 703, 568, 455, 360, 283>>,
          callDelta |-> <<9178, 8895, 8556, 8160, 7710, 7212, 6676, 6113, 5534, 4953, 4381, 3829, 3308, 2825, 2384, 1989, 1641>>,
          putPrice |-> <<133, 190, 265, 360, 477, 621, 791, 990, 1218, 1475, 1761, 2074, 2414, 2776, 3161, 3565, 3985>>,
          putDelta |-> <<-822, -1105, -1444, -1840, -2290, -2788, -3324, -3887, -4466, -5047, -5619, -6171, -6692, -7175, -7616, -8011, -8359>> ],
        [ \* 45 days to expiry
          callPrice |-> <<4586, 4171, 3773, 3395, 3037, 2702, 2390, 2101, 1837, 1596, 1378, 1184, 1010, 857, 723, 607, 506>>,
          callDelta |-> <<8795, 8501, 8168, 7800, 7399, 6971, 6522, 6057, 5584, 5110, 4642, 4185, 3745, 3327, 2934, 2569, 2233>>,
          putPrice |-> <<262, 344, 443, 561, 701, 862, 1047, 1255, 1488, 1744, 2023, 2325, 2649, 2993, 3356, 3736, 4133>>,
          putDelta |-> <<-1205, -1499, -1832, -2200, -2601, -3029, -3478, -3943, -4416, -4890, -5358, -5815, -6255, -6673, -7066, -7431, -7767>> ]
       >>
    [] symbol = "US.SPY" /\ date = 14 -> << \* 2023-01-14, spot 329.12
        [ \* 7 days to expiry
          callPrice |-> <<4439, 3940, 3440, 2941, 2443, 1951, 1475, 1036, 663, 379, 190, 83, 31, 10, 3, 1, 1>>,
          callDelta |-> <<10000, 10000, 9998, 9988, 9939, 9762, 9284, 8302, 6750, 4841, 2994, 1574, 698, 260, 82, 22, 5>>,
          putPrice |-> <<1, 1, 1, 1, 2, 9, 33, 94, 220, 435, 746, 1138, 1586, 2064, 2557, 3054, 3553>>,
          putDelta |-> <<0, 0, -2, -12, -61, -238, -716, -1698, -3250, -5159, -7006, -8426, -9302, -9740, -9918, -9978, -9995>> ],
        [ \* 14 days to expiry
          callPrice |-> <<4467, 3968, 3471, 2977, 2491, 2021, 1580, 1181, 838, 562, 354, 209, 115, 59, 28, 13, 5>>,
          callDelta |-> <<9996, 9985, 9949, 9855, 9645, 9242, 8573, 7606, 6382, 5019, 3672, 2489, 1559, 900, 480, 236, 107>>,
          putPrice |-> <<1, 1, 2, 7, 21, 50, 107, 207, 364, 587, 878, 1232, 1637, 2080, 2548, 3032, 3523>>,
          putDelta |-> <<-4, -15, -51, -145, -355, -758, -1427, -2394, -3618, -4981, -6328, -7511, -8441, -9100, -9520, -9764, -9893>> ],
        [ \* 21 days to expiry
          callPrice |-> <<4495, 4000, 3508, 3023, 2552, 2103, 1684, 1307, 979, 707, 490, 325, 207, 126, 73, 41, 22>>,
          callDelta |-> <<9972, 9927, 9831, 9648, 9334, 8845, 8157, 7274, 6239, 5122, 4013, 2992, 2121, 1428, 913, 555, 321>>,
          putPrice |-> <<2, 4, 11, 25, 53, 102, 182, 303, 474, 700, 981, 1316, 1696, 2113, 2559, 3025, 3505>>,
          putDelta |-> <<-28, -73, -169, -352, -666, -1155, -1843, -2726, -3761, -4878, -5987, -7008, -7879, -8572, -9087, -9445, -9679>> ],
        [ \* 30 days to expiry
          callPrice |-> <<4536, 4046, 3563, 3092, 2639, 2209, 1811, 1451, 1134, 864, 640, 461, 322, 219, 145, 93, 58>>,
          callDelta |-> <<9905, 9809, 9645, 9386, 9006, 8487, 7826, 7037, 6152, 5217, 4284, 3403, 2612, 1937, 1387, 960, 643>>,
          putPrice |-> <<7, 15, 30, 57, 102, 170, 270, 408, 589, 816, 1091, 1409, 1769, 2164, 2587, 3033, 3496>>,
          putDelta |-> <<-95, -191, -355, -614, -994, -1513, -2174, -2963, -3848, -4783, -5716, -6597, -7388, -8063, -8613, -9040, -9357>> ],
        [ \* 45 days to expiry
          callPrice |-> <<4613, 4135, 3669, 3218, 2787, 2381, 2004, 1661, 1355, 1086, 855, 662, 503, 375, 275, 198, 140>>,
          callDelta |-> <<9746, 9583, 9349, 9031, 8618, 8109, 7508, 6830, 6097, 5334, 4570, 3833, 3145, 2525, 1984, 1525, 1147>>,
          putPrice |-> <<25, 45, 76, 122, 188, 279, 399, 553, 743, 971, 1238, 1541, 1879, 2248, 2645, 3064, 3503>>,
          putDelta |-> <<-254, -417, -651, -969, -1382, -1891, -2492, -3170, -3903, -4666, -5430, -6167, -6855, -7475, -8016, -8475, -8853>> ]
       >>
    [] symbol = "US.SPY" /\ date = 15 -> << \* 2023-01-15, spot 327.38
        [ \* 7 days to expiry
          callPrice |-> <<4274, 3784, 3303, 2836, 2390, 1971, 1588, 1247, 953, 708, 510, 356, 241, 158, 100, 62, 37>>,
          callDelta |-> <<9883, 9767, 9569, 9260, 8813, 8214, 7468, 6598, 5649, 4676, 3736, 2879, 2137, 1529, 1054, 700, 449>>,
          putPrice |-> <<8, 18, 37, 69, 122, 203, 320, 479, 684, 938, 1240, 1586, 1970, 2386, 2828, 3289, 3764>>,
          putDelta |-> <<-117, -233, -431, -740, -1187, -1786, -2532, -3402, -4351, -5324, -6264, -7121, -7863, -8471, -8946, -9300, -9551>> ],
        [ \* 14 days to expiry
          callPrice |-> <<4356, 3894, 3447, 3020, 2617, 2241, 1895, 1582, 1303, 1059, 849, 670, 522, 401, 304, 227, 167>>,
          callDelta |-> <<9492, 9250, 8936, 8544, 8074, 7530, 6924, 6271, 5590, 4902, 4227, 3584, 2987, 2447, 1971, 1561, 1216>>,
          putPrice |-> <<64, 100, 153, 225, 321, 443, 597, 783, 1003, 1258, 1546, 1867, 2218, 2596, 2998, 3420, 3859>>,
          putDelta |-> <<-508, -750, -1064, -1456, -1926, -2470, -3076, -3729, -4410, -5098, -5773, -6416, -7013, -7553, -8029, -8439, -8784>> ],
        [ \* 21 days to expiry
          callPrice |-> <<4467, 4028, 3607, 3206, 2828, 2474, 2147, 1847, 1576, 1332, 1117, 928, 764, 624, 505, 405, 323>>,
          callDelta |-> <<9136, 8854, 8518, 8130, 7691, 7209, 6691, 6147, 5589, 5028, 4474, 3938, 3429, 2954, 2518, 2124, 1773>>,
          putPrice |-> <<147, 207, 284, 382, 502, 647, 818, 1017, 1244, 1500, 1783, 2092, 2427, 2786, 3165, 3564, 3980>>,
          putDelta |-> <<-864, -1146, -1482, -1870, -2309, -2791, -3309, -3853, -4411, -4972, -5526, -6062, -6571, -7046, -7482, -7876, -8227>> ],
        [ \* 30 days to expiry
          callPrice |-> <<4622, 4206, 3808, 3430, 3072, 2736, 2423, 2134, 1868, 1627, 1408, 1211, 1037, 882, 746, 628, 525>>,
          callDelta |-> <<8789, 8497, 8167, 7801, 7404, 6980, 6535, 6075, 5608, 5138, 4674, 4221, 3785, 3369, 2978, 2614, 2279>>,
          putPrice |-> <<267, 350, 449, 569, 709, 871, 1056, 1265, 1497, 1753, 2032, 2334, 2657, 3000, 3363, 3742, 4138>>,
          putDelta |-> <<-1211, -1503, -1833, -2199, -2596, -3020, -3465, -3925, -4392, -4862, -5326, -5779, -6215, -6631, -7022, -7386, -7721>> ],
        [ \* 45 days to expiry
          callPrice |-> <<4883, 4494, 4122, 3767, 3430, 3113, 2815, 2536, 2276, 2036, 1815, 1612, 1427, 1259, 1107, 970, 848>>,
          callDelta |-> <<8400, 8118, 7812, 7486, 7142, 6783, 6412, 6034, 5652, 5270, 4891, 4518, 4155, 3805, 3468, 3148, 2845>>,
          putPrice |-> <<470, 578, 702, 844, 1005, 1184, 1383, 1601, 1839, 2096, 2371, 2665, 2977, 3306, 3651, 4011, 4385>>,
          putDelta |-> <<-1600, -1882, -2188, -2514, -2858, -3217, -3588, -3966, -4348, -4730, -5109, -5482, -5845, -6195, -6532, -6852, -7155>> ]
       >>
    [] symbol = "US.SPY" /\ date = 16 -> << \* 2023-01-16, spot 327.66
        [ \* 7 days to expiry
          callPrice |-> <<4293, 3794, 3295, 2796, 2302, 1819, 1363, 953, 614, 359, 189, 89, 37, 14, 4, 1, 1>>,
          callDelta |-> <<10000, 9998, 9990, 9953, 9830, 9504, 8821, 7672, 6106, 4361, 2755, 1527, 739, 312, 115, 37, 10>>,
          putPrice |-> <<1, 1, 1, 2, 7, 24, 66, 156, 316, 561, 891, 1290, 1738, 2214, 2704, 3201, 3699>>,
          putDelta |-> <<0, -2, -10, -47, -170, -496, -1179, -2328, -3894, -5639, -7245, -8473, -9261, -9688, -9885, -9963, -9990>> ],
        [ \* 14 days to expiry
          callPrice |-> <<4321, 3824, 3330, 2843, 2369, 1918, 1500, 1129, 813, 558, 365, 226, 133, 74, 39, 19, 9>>,
          callDelta |-> <<9982, 9948, 9865, 9692, 9370, 8845, 8079, 7081, 5912, 4673, 3484, 2442, 1607, 992, 574, 312, 160>>,
          putPrice |-> <<1, 3, 8, 20, 45, 92, 174, 301, 485, 729, 1035, 1395, 1800, 2240, 2705, 3184, 3673>>,
          putDelta |-> <<-18, -52, -135, -308, -630, -1155, -1921, -2919, -4088, -5327, -6516, -7558, -8393, -9008, -9426, -9688, -9840>> ],
        [ \* 21 days to expiry
          callPrice |-> <<4353, 3862, 3377, 2904, 2450, 2022, 1628, 1275, 971, 716, 511, 353, 236, 152, 95, 57, 33>>,
          callDelta |-> <<9920, 9829, 9666, 9397, 8990, 8423, 7693, 6820, 5848, 4837, 3851, 2947, 2166, 1529, 1036, 675, 422>>,
          putPrice |-> <<5, 12, 26, 52, 96, 167, 271, 418, 611, 855, 1149, 1490, 1871, 2285, 2727, 3187, 3662>>,
          putDelta |-> <<-80, -171, -334, -603, -1010, -1577, -2307, -3180, -4152, -5163, -6149, -7053, -7834, -8471, -8964, -9325, -9578>> ],
        [ \* 30 days to expiry
          callPrice |-> <<4401, 3919, 3448, 2993, 2559, 2151, 1777, 1439, 1142, 888, 675, 502, 364, 259, 180, 122, 81>>,
          callDelta |-> <<9795, 9641, 9408, 9076, 8633, 8073, 7403, 6642, 5821, 4975, 4143, 3359, 2651, 2036, 1521, 1107, 784>>,
          putPrice |-> <<18, 34, 61, 104, 168, 258, 381, 542, 743, 986, 1271, 1596, 1957, 2349, 2768, 3208, 3665>>,
          putDelta |-> <<-205, -359, -592, -924, -1367, -1927, -2597, -3358, -4179, -5025, -5857, -6641, -7349, -7964, -8479, -8893, -9216>> ],
        [ \* 45 days to expiry
          callPrice |-> <<4495, 4030, 3579, 3147, 2736, 2352, 1997, 1674, 1385, 1130, 909, 721, 564, 435, 331, 248, 183>>,
          callDelta |-> <<9560, 9342, 9054, 8689, 8244, 7724, 7136, 6496, 5821, 5131, 4448, 3791, 3176, 2615, 2116, 1684, 1318>>,
          putPrice |-> <<53, 85, 132, 196, 283, 396, 537, 711, 919, 1161, 1437, 1746, 2086, 2454, 2846, 3261, 3693>>,
          putDelta |-> <<-440, -658, -946, -1311, -1756, -2276, -2864, -3504, -4179, -4869, -5552, -6209, -6824, -7385, -7884, -8316, -8682>> ]
       >>
    [] symbol = "US.SPY" /\ date = 17 -> << \* 2023-01-17, spot 325.82
        [ \* 7 days to expiry
          callPrice |-> <<4112, 3617, 3128, 2651, 2192, 1762, 1371, 1029, 743, 514, 340, 215, 130, 75, 41, 21, 11>>,
          callDelta |-> <<9951, 9878, 9731, 9463, 9026, 8384, 7532, 6503, 5368, 4219, 3149, 2227, 1492, 947, 569, 324, 175>>,
          putPrice |-> <<3, 7, 18, 40, 81, 150, 259, 416, 629, 900, 1226, 1600, 2015, 2459, 2925, 3405, 3894>>,
          putDelta |-> <<-49, -122, -269, -537, -974, -1616, -2468, -3497, -4632, -5781, -6851, -7773, -8508, -9053, -9431, -9676, -9825>> ],
        [ \* 14 days to expiry
          callPrice |-> <<4167, 3692, 3231, 2789, 2372, 1984, 1631, 1316, 1041, 808, 614, 457, 333, 237, 166, 113, 76>>,
          callDelta |-> <<9684, 9478, 9185, 8789, 8285, 7673, 6970, 6197, 5386, 4571, 3785, 3057, 2408, 1850, 1386, 1013, 723>>,
          putPrice |-> <<31, 55, 93, 150, 231, 342, 488, 672, 897, 1162, 1468, 1810, 2185, 2588, 3016, 3462, 3924>>,
          putDelta |-> <<-316, -522, -815, -1211, -1715, -2327, -3030, -3803, -4614, -5429, -6215, -6943, -7592, -8150, -8614, -8987, -9277>> ],
        [ \* 21 days to expiry
          callPrice |-> <<4246, 3791, 3354, 2937, 2544, 2179, 1845, 1543, 1274, 1039, 836, 664, 520, 403, 307, 232, 172>>,
          callDelta |-> <<9385, 9118, 8779, 8366, 7881, 7330, 6725, 6081, 5417, 4751, 4102, 3486, 2916, 2400, 1945, 1552, 1219>>,
          putPrice |-> <<82, 126, 187, 268, 374, 508, 672, 869, 1099, 1362, 1658, 1984, 2339, 2720, 3123, 3546, 3986>>,
          putDelta |-> <<-615, -882, -1221, -1634, -2119, -2670, -3275, -3919, -4583, -5249, -5898, -6514, -7084, -7600, -8055, -8448, -8781>> ],
        [ \* 30 days to expiry
          callPrice |-> <<4362, 3929, 3514, 3119, 2747, 2401, 2081, 1789, 1524, 1288, 1079, 896, 738, 603, 488, 391, 312>>,
          callDelta |-> <<9062, 8767, 8418, 8018, 7571, 7081, 6560, 6015, 5459, 4902, 4356, 3829, 3331, 2866, 2441, 2058, 1717>>,
          putPrice |-> <<163, 228, 311, 414, 540, 692, 870, 1075, 1309, 1571, 1860, 2175, 2515, 2877, 3260, 3662, 4080>>,
          putDelta |-> <<-938, -1233, -1582, -1982, -2429, -2919, -3440, -3985, -4541, -5098, -5644, -6171, -6669, -7134, -7559, -7942, -8283>> ],
        [ \* 45 days to expiry
          callPrice |-> <<4566, 4159, 3769, 3399, 3050, 2722, 2416, 2134, 1874, 1638, 1423, 1230, 1058, 905, 770, 652, 549>>,
          callDelta |-> <<8673, 8374, 8040, 7674, 7280, 6862, 6426, 5978, 5524, 5070, 4623, 4186, 3765, 3364, 2987, 2634, 2309>>,
          putPrice |-> <<309, 399, 506, 633, 780, 949, 1141, 1355, 1593, 1853, 2135, 2439, 2764, 3108, 3470, 3849, 4243>>,
          putDelta |-> <<-1327, -1626, -1960, -2326, -2720, -3138, -3574, -4022, -4476, -4930, -5377, -5814, -6235, -6636, -7013, -7366, -7691>> ]
       >>
    [] symbol = "US.SPY" /\ date = 18 -> << \* 2023-01-18, spot 327.78
        [ \* 7 days to expiry
          callPrice |-> <<4317, 3830, 3352, 2889, 2447, 2033, 1653, 1314, 1019, 770, 567, 406, 283, 191, 126, 81, 50>>,
          callDelta |-> <<9852, 9719, 9505, 9184, 8735, 8148, 7429, 6601, 5703, 4780, 3882, 3053, 2323, 1710, 1218, 840, 561>>,
          putPrice |-> <<12, 24, 46, 82, 140, 225, 345, 505, 710, 961, 1257, 1595, 1972, 2380, 2814, 3268, 3737>>,
          putDelta |-> <<-148, -281, -495, -816, -1265, -1852, -2571, -3399, -4297, -5220, -6118, -6947, -7677, -8290, -8782, -9160, -9439>> ],
        [ \* 14 days to expiry
          callPrice |-> <<4411, 3954, 3512, 3091, 2692, 2320, 1977, 1666, 1387, 1141, 927, 743, 589, 461, 356, 272, 205>>,
          callDelta |-> <<9419, 9169, 8850, 8460, 8001, 7476, 6896, 6276, 5631, 4978, 4336, 3720, 3143, 2616, 2145, 1733, 1379>>,
          putPrice |-> <<79, 120, 178, 255, 356, 483, 639, 827, 1047, 1299, 1584, 1900, 2245, 2616, 3010, 3425, 3857>>,
          putDelta |-> <<-581, -831, -1150, -1540, -1999, -2524, -3104, -3724, -4369, -5022, -5664, -6280, -6857, -7384, -7855, -8267, -8621>> ],
        [ \* 21 days to expiry
          callPrice |-> <<4534, 4101, 3686, 3290, 2917, 2567, 2242, 1944, 1673, 1428, 1210, 1017, 849, 703, 577, 471, 381>>,
          callDelta |-> <<9050, 8765, 8432, 8051, 7626, 7163, 6669, 6153, 5624, 5091, 4565, 4055, 3566, 3107, 2682, 2293, 1943>>,
          putPrice |-> <<174, 240, 323, 426, 551, 700, 874, 1074, 1302, 1556, 1836, 2142, 2472, 2824, 3197, 3589, 3998>>,
          putDelta |-> <<-950, -1235, -1568, -1949, -2374, -2837, -3331, -3847, -4376, -4909, -5435, -5945, -6434, -6893, -7318, -7707, -8057>> ],
        [ \* 30 days to expiry
          callPrice |-> <<4704, 4294, 3902, 3529, 3176, 2843, 2533, 2246, 1980, 1738, 1517, 1318, 1139, 979, 838, 714, 605>>,
          callDelta |-> <<8699, 8409, 8085, 7730, 7348, 6943, 6519, 6082, 5639, 5194, 4753, 4322, 3905, 3506, 3128, 2774, 2445>>,
          putPrice |-> <<309, 397, 503, 628, 772, 938, 1126, 1336, 1569, 1824, 2102, 2400, 2719, 3058, 3414, 3788, 4177>>,
          putDelta |-> <<-1301, -1591, -1915, -2270, -2652, -3057, -3481, -3918, -4361, -4806, -5247, -5678, -6095, -6494, -6872, -7226, -7555>> ],
        [ \* 45 days to expiry
          callPrice |-> <<4985, 4602, 4236, 3886, 3554, 3240, 2944, 2667, 2409, 2168, 1946, 1741, 1553, 1381, 1225, 1083, 955>>,
          callDelta |-> <<8313, 8037, 7741, 7427, 7097, 6754, 6402, 6043, 5681, 5318, 4959, 4605, 4259, 3924, 3601, 3292, 2998>>,
          putPrice |-> <<532, 646, 776, 924, 1088, 1271, 1473, 1693, 1931, 2188, 2462, 2754, 3063, 3388, 3729, 4084, 4453>>,
          putDelta |-> <<-1687, -1963, -2259, -2573, -2903, -3246, -3598, -3957, -4319, -4682, -5041, -5395, -5741, -6076, -6399, -6708, -7002>> ]
       >>
    [] symbol = "US.SPY" /\ date = 19 -> << \* 2023-01-19, spot 323.93
        [ \* 7 days to expiry
          callPrice |-> <<4420, 3921, 3422, 2926, 2437, 1963, 1517, 1115, 773, 502, 303, 170, 88, 42, 18, 7, 3>>,
          callDelta |-> <<9998, 9991, 9965, 9890, 9703, 9317, 8640, 7626, 6319, 4859, 3440, 2229, 1318, 710, 349, 156, 64>>,
          putPrice |-> <<1, 1, 1, 5, 16, 41, 95, 192, 350, 578, 879, 1245, 1662, 2116, 2592, 3080, 3575>>,
          putDelta |-> <<-2, -9, -35, -110, -297, -683, -1360, -2374, -3681, -5141, -6560, -7771, -8682, -9290, -9651, -9844, -9936>> ],
        [ \* 14 days to expiry
          callPrice |-> <<4450, 3956, 3468, 2990, 2528, 2090, 1685, 1321, 1005, 740, 526, 361, 239, 153, 94, 56, 32>>,
          callDelta |-> <<9944, 9873, 9738, 9505, 9138, 8608, 7904, 7042, 6061, 5024, 4001, 3057, 2237, 1569, 1054, 678, 419>>,
          putPrice |-> <<3, 9, 19, 40, 78, 139, 233, 368, 551, 785, 1070, 1404, 1781, 2194, 2634, 3095, 3570>>,
          putDelta |-> <<-56, -127, -262, -495, -862, -1392, -2096, -2958, -3939, -4976, -5999, -6943, -7763, -8431, -8946, -9322, -9581>> ],
        [ \* 21 days to expiry
          callPrice |-> <<4489, 4005, 3531, 3072, 2632, 2219, 1837, 1493, 1188, 926, 706, 526, 383, 273, 190, 129, 86>>,
          callDelta |-> <<9819, 9678, 9462, 9150, 8727, 8187, 7533, 6784, 5968, 5121, 4281, 3484, 2760, 2127, 1595, 1164, 827>>,
          putPrice |-> <<16, 30, 55, 94, 153, 238, 355, 509, 703, 940, 1218, 1537, 1893, 2281, 2696, 3134, 3589>>,
          putDelta |-> <<-181, -322, -538, -850, -1273, -1813, -2467, -3216, -4032, -4879, -5719, -6516, -7240, -7873, -8405, -8836, -9173>> ],
        [ \* 30 days to expiry
          callPrice |-> <<4551, 4081, 3624, 3185, 2767, 2375, 2013, 1683, 1387, 1127, 902, 712, 553, 423, 319, 237, 173>>,
          callDelta |-> <<9625, 9424, 9152, 8801, 8366, 7849, 7258, 6609, 5918, 5210, 4505, 3826, 3190, 2612, 2100, 1658, 1286>>,
          putPrice |-> <<43, 71, 113, 171, 251, 357, 493, 661, 863, 1101, 1374, 1681, 2020, 2389, 2782, 3198, 3632>>,
          putDelta |-> <<-375, -576, -848, -1199, -1634, -2151, -2742, -3391, -4082, -4790, -5495, -6174, -6810, -7388, -7900, -8342, -8714>> ],
        [ \* 45 days to expiry
          callPrice |-> <<4672, 4223, 3790, 3376, 2982, 2613, 2270, 1954, 1667, 1410, 1181, 979, 805, 655, 529, 423, 335>>,
          callDelta |-> <<9320, 9071, 8767, 8405, 7989, 7521, 7010, 6465, 5897, 5319, 4743, 4181, 3643, 3137, 2671, 2249, 1872>>,
          putPrice |-> <<107, 155, 219, 301, 405, 533, 686, 868, 1078, 1317, 1585, 1881, 2203, 2550, 2921, 3311, 3720>>,
          putDelta |-> <<-680, -929, -1233, -1595, -2011, -2479, -2990, -3535, -4103, -4681, -5257, -5819, -6357, -6863, -7329, -7751, -8128>> ]
       >>
    [] symbol = "US.SPY" /\ date = 20 -> << \* 2023-01-20, spot 328.42
        [ \* 7 days to expiry
          callPrice |-> <<4369, 3870, 3370, 2871, 2372, 1875, 1390, 939, 559, 284, 119, 41, 11, 2, 1, 1, 1>>,
          callDelta |-> <<10000, 10000, 10000, 9998, 9980, 9880, 9500, 8515, 6737, 4468, 2392, 1011, 334, 86, 17, 3, 0>>,
          putPrice |-> <<1, 1, 1, 1, 1, 4, 18, 67, 186, 410, 745, 1166, 1636, 2127, 2624, 3124, 3623>>,
          putDelta |-> <<0, 0, 0, -2, -20, -120, -500, -1485, -3263, -5532, -7608, -8989, -9666, -9914, -9983, -9997, -10000>> ],
        [ \* 14 days to expiry
          callPrice |-> <<4397, 3898, 3399, 2902, 2409, 1928, 1472, 1059, 710, 439, 248, 127, 59, 25, 9, 3, 1>>,
          callDelta |-> <<10000, 9997, 9985, 9941, 9808, 9486, 8846, 7801, 6381, 4763, 3206, 1931, 1036, 494, 210, 79, 27>>,
          putPrice |-> <<1, 1, 1, 2, 9, 27, 69, 156, 306, 534, 842, 1220, 1651, 2116, 2599, 3092, 3589>>,
          putDelta |-> <<0, -3, -15, -59, -192, -514, -1154, -2199, -3619, -5237, -6794, -8069, -8964, -9506, -9790, -9921, -9973>> ],
        [ \* 21 days to expiry
          callPrice |-> <<4424, 3926, 3430, 2938, 2456, 1992, 1557, 1167, 833, 563, 359, 215, 121, 64, 32, 15, 6>>,
          callDelta |-> <<9994, 9977, 9930, 9814, 9572, 9132, 8431, 7452, 6245, 4921, 3625, 2486, 1584, 936, 513, 261, 124>>,
          putPrice |-> <<1, 1, 3, 10, 26, 61, 125, 233, 397, 626, 921, 1276, 1680, 2121, 2588, 3069, 3559>>,
          putDelta |-> <<-6, -23, -70, -186, -428, -868, -1569, -2548, -3755, -5079, -6375, -7514, -8416, -9064, -9487, -9739, -9876>> ],
        [ \* 30 days to expiry
          callPrice |-> <<4461, 3966, 3475, 2993, 2524, 2078, 1663, 1290, 967, 698, 484, 323, 206, 126, 74, 41, 22>>,
          callDelta |-> <<9968, 9918, 9815, 9620, 9292, 8788, 8088, 7200, 6165, 5057, 3961, 2956, 2099, 1417, 910, 556, 323>>,
          putPrice |-> <<2, 5, 12, 28, 57, 109, 192, 317, 492, 721, 1005, 1341, 1722, 2140, 2586, 3052, 3530>>,
          putDelta |-> <<-32, -82, -185, -380, -708, -1212, -1912, -2800, -3835, -4943, -6039, -7044, -7901, -8583, -9090, -9444, -9677>> ],
        [ \* 45 days to expiry
          callPrice |-> <<4526, 4039, 3560, 3093, 2645, 2221, 1828, 1473, 1159, 891, 667, 487, 346, 239, 161, 105, 67>>,
          callDelta |-> <<9882, 9774, 9595, 9321, 8929, 8405, 7750, 6977, 6118, 5214, 4313, 3459, 2687, 2022, 1474, 1041, 712>>,
          putPrice |-> <<9, 19, 37, 67, 115, 188, 292, 434, 617, 846, 1119, 1436, 1792, 2182, 2601, 3042, 3501>>,
          putDelta |-> <<-118, -226, -405, -679, -1071, -1595, -2250, -3023, -3882, -4786, -5687, -6541, -7313, -7978, -8526, -8959, -9288>> ]
       >>
    [] symbol = "US.SPY" /\ date = 21 -> << \* 2023-01-21, spot 323.84
        [ \* 7 days to expiry
          callPrice |-> <<4411, 3912, 3414, 2920, 2435, 1966, 1528, 1133, 798, 529, 330, 192, 104, 53, 25, 11, 4>>,
          callDelta |-> <<9996, 9984, 9945, 9845, 9622, 9196, 8494, 7489, 6233, 4851, 3508, 2345, 1446, 821, 430, 208, 93>>,
          putPrice |-> <<1, 1, 3, 8, 22, 53, 114, 219, 383, 614, 914, 1276, 1687, 2135, 2607, 3093, 3586>>,
          putDelta |-> <<-4, -16, -55, -155, -378, -804, -1506, -2511, -3767, -5149, -6492, -7655, -8554, -9179, -9570, -9792, -9907>> ],
        [ \* 14 days to expiry
          callPrice |-> <<4443, 3952, 3467, 2994, 2538, 2108, 1711, 1354, 1043, 780, 566, 398, 271, 179, 114, 71, 42>>,
          callDelta |-> <<9916, 9825, 9664, 9402, 9010, 8467, 7769, 6934, 5999, 5018, 4051, 3152, 2362, 1704, 1184, 792, 511>>,
          putPrice |-> <<6, 13, 27, 53, 97, 166, 268, 410, 597, 834, 1119, 1450, 1822, 2229, 2663, 3119, 3589>>,
          putDelta |-> <<-84, -175, -336, -598, -990, -1533, -2231, -3066, -4001, -4982, -5949, -6848, -7638, -8296, -8816, -9208, -9489>> ],
        [ \* 21 days to expiry
          callPrice |-> <<4487, 4007, 3539, 3086, 2654, 2249, 1875, 1536, 1236, 976, 756, 574, 427, 312, 223, 156, 107>>,
          callDelta |-> <<9761, 9597, 9358, 9026, 8591, 8052, 7413, 6693, 5917, 5116, 4322, 3566, 2873, 2259, 1734, 1300, 952>>,
          putPrice |-> <<23, 41, 71, 117, 184, 277, 402, 562, 760, 999, 1277, 1594, 1946, 2328, 2738, 3170, 3620>>,
          putDelta |-> <<-239, -403, -642, -974, -1409, -1948, -2587, -3307, -4083, -4884, -5678, -6434, -7127, -7741, -8266, -8700, -9048>> ],
        [ \* 30 days to expiry
          callPrice |-> <<4557, 4093, 3643, 3211, 2802, 2417, 2062, 1737, 1446, 1188, 963, 771, 609, 475, 365, 277, 208>>,
          callDelta |-> <<9538, 9318, 9030, 8669, 8233, 7724, 7153, 6531, 5876, 5205, 4540, 3896, 3291, 2735, 2237, 1801, 1427>>,
          putPrice |-> <<58, 92, 140, 206, 295, 408, 551, 724, 931, 1171, 1444, 1750, 2086, 2449, 2838, 3248, 3676>>,
          putDelta |-> <<-462, -682, -970, -1331, -1767, -2276, -2847, -3469, -4124, -4795, -5460, -6104, -6709, -7265, -7763, -8199, -8573>> ],
        [ \* 45 days to expiry
          callPrice |-> <<4692, 4250, 3825, 3418, 3033, 2671, 2334, 2024, 1741, 1485, 1256, 1054, 878, 725, 593, 482, 388>>,
          callDelta |-> <<9209, 8949, 8638, 8276, 7866, 7411, 6920, 6400, 5862, 5315, 4771, 4239, 3729, 3246, 2798, 2388, 2018>>,
          putPrice |-> <<136, 191, 263, 353, 465, 600, 760, 946, 1160, 1401, 1670, 1965, 2285, 2629, 2994, 3380, 3783>>,
          putDelta |-> <<-791, -1051, -1362, -1724, -2134, -2589, -3080, -3600, -4138, -4685, -5229, -5761, -6271, -6754, -7202, -7612, -7982>> ]
       >>
    [] symbol = "US.SPY" /\ date = 22 -> << \* 2023-01-22, spot 325.13
        [ \* 7 days to expiry
          callPrice |-> <<4040, 3541, 3041, 2542, 2043, 1550, 1077, 659, 341, 143, 47, 12, 2, 1, 1, 1, 1>>,
          callDelta |-> <<10000, 10000, 10000, 9996, 9961, 9769, 9101, 7579, 5270, 2896, 1215, 382, 90, 16, 2, 0, 0>>,
          putPrice |-> <<1, 1, 1, 1, 1, 7, 34, 115, 296, 598, 1002, 1467, 1956, 2454, 2953, 3452, 3952>>,
          putDelta |-> <<0, 0, 0, -4, -39, -231, -899, -2421, -4730, -7104, -8785, -9618, -9910, -9984, -9998, -10000, -10000>> ],
        [ \* 14 days to expiry
          callPrice |-> <<4068, 3569, 3070, 2574, 2084, 1610, 1172, 791, 488, 272, 136, 60, 24, 8, 3, 1, 1>>,
          callDelta |-> <<9999, 9996, 9980, 9916, 9722, 9259, 8377, 7023, 5335, 3610, 2150, 1119, 508, 201, 69, 21, 6>>,
          putPrice |-> <<1, 1, 1, 3, 12, 38, 98, 216, 413, 696, 1059, 1482, 1945, 2428, 2922, 3419, 3917>>,
          putDelta |-> <<-1, -4, -20, -84, -278, -741, -1623, -2977, -4665, -6390, -7850, -8881, -9492, -9799, -9931, -9979, -9994>> ],
        [ \* 21 days to expiry
          callPrice |-> <<4095, 3597, 3102, 2612, 2134, 1679, 1263, 901, 605, 380, 223, 121, 61, 28, 12, 5, 2>>,
          callDelta |-> <<9993, 9973, 9913, 9763, 9444, 8869, 7978, 6784, 5392, 3971, 2693, 1677, 956, 499, 239, 105, 42>>,
          putPrice |-> <<1, 1, 4, 12, 33, 77, 160, 296, 499, 772, 1113, 1510, 1949, 2415, 2897, 3388, 3884>>,
          putDelta |-> <<-7, -27, -87, -237, -556, -1131, -2022, -3216, -4608, -6029, -7307, -8323, -9044, -9501, -9761, -9895, -9958>> ],
        [ \* 30 days to expiry
          callPrice |-> <<4132, 3637, 3147, 2668, 2205, 1769, 1372, 1024, 733, 501, 327, 203, 119, 67, 36, 18, 9>>,
          callDelta |-> <<9965, 9908, 9784, 9545, 9138, 8519, 7672, 6626, 5455, 4261, 3147, 2194, 1442, 893, 522, 287, 150>>,
          putPrice |-> <<2, 5, 13, 32, 67, 129, 230, 380, 587, 853, 1176, 1550, 1965, 2410, 2877, 3357, 3846>>,
          putDelta |-> <<-35, -92, -216, -455, -862, -1481, -2328, -3374, -4545, -5739, -6853, -7806, -8558, -9107, -9478, -9713, -9850>> ],
        [ \* 45 days to expiry
          callPrice |-> <<4197, 3710, 3233, 2770, 2327, 1914, 1537, 1202, 915, 676, 485, 337, 226, 148, 93, 57, 34>>,
          callDelta |-> <<9877, 9755, 9548, 9227, 8765, 8150, 7386, 6502, 5543, 4567, 3630, 2780, 2051, 1458, 998, 658, 419>>,
          putPrice |-> <<9, 19, 38, 72, 127, 211, 330, 493, 702, 960, 1266, 1615, 2001, 2419, 2862, 3323, 3796>>,
          putDelta |-> <<-123, -245, -452, -773, -1235, -1850, -2614, -3498, -4457, -5433, -6370, -7220, -7949, -8542, -9002, -9342, -9581>> ]
       >>
    [] symbol = "US.SPY" /\ date = 23 -> << \* 2023-01-23, spot 327.46
        [ \* 7 days to expiry
          callPrice |-> <<4273, 3774, 3275, 2776, 2282, 1799, 1343, 935, 598, 347, 180, 83, 34, 12, 4, 1, 1>>,
          callDelta |-> <<10000, 9998, 9990, 9954, 9830, 9500, 8805, 7636, 6046, 4284, 2678, 1464, 697, 289, 104, 33, 9>>,
          putPrice |-> <<1, 1, 1, 2, 7, 24, 67, 158, 321, 569, 902, 1305, 1755, 2233, 2724, 3221, 3719>>,
          putDelta |-> <<0, -2, -10, -46, -170, -500, -1195, -2364, -3954, -5716, -7322, -8536, -9303, -9711, -9896, -9967, -9991>> ],
        [ \* 14 days to expiry
          callPrice |-> <<4301, 3804, 3310, 2823, 2349, 1897, 1480, 1110, 796, 544, 353, 217, 126, 69, 36, 18, 8>>,
          callDelta |-> <<9983, 9949, 9867, 9694, 9370, 8839, 8063, 7052, 5868, 4619, 3424, 2383, 1555, 951, 545, 293, 148>>,
          putPrice |-> <<1, 3, 7, 19, 44, 92, 174, 303, 488, 735, 1043, 1406, 1814, 2256, 2722, 3203, 3692>>,
          putDelta |-> <<-17, -51, -133, -306, -630, -1161, -1937, -2948, -4132, -5381, -6576, -7617, -8445, -9049, -9455, -9707, -9852>> ],
        [ \* 21 days to expiry
          callPrice |-> <<4333, 3841, 3357, 2884, 2429, 2001, 1607, 1256, 953, 700, 498, 342, 227, 145, 90, 53, 31>>,
          callDelta |-> <<9922, 9832, 9669, 9399, 8989, 8417, 7679, 6796, 5813, 4792, 3800, 2894, 2115, 1483, 998, 645, 400>>,
          putPrice |-> <<5, 12, 26, 51, 96, 166, 271, 418, 613, 859, 1155, 1498, 1881, 2298, 2742, 3204, 3680>>,
          putDelta |-> <<-78, -168, -331, -601, -1011, -1583, -2321, -3204, -4187, -5208, -6200, -7106, -7885, -8517, -9002, -9355, -9600>> ],
        [ \* 30 days to expiry
          callPrice |-> <<4380, 3898, 3427, 2972, 2537, 2130, 1755, 1419, 1123, 870, 659, 488, 353, 249, 172, 116, 76>>,
          callDelta |-> <<9799, 9646, 9412, 9080, 8633, 8067, 7390, 6621, 5792, 4938, 4100, 3313, 2603, 1990, 1480, 1071, 754>>,
          putPrice |-> <<18, 33, 60, 103, 166, 257, 380, 541, 744, 989, 1276, 1602, 1965, 2360, 2780, 3222, 3681>>,
          putDelta |-> <<-201, -354, -588, -920, -1367, -1933, -2610, -3379, -4208, -5062, -5900, -6687, -7397, -8010, -8520, -8929, -9246>> ],
        [ \* 45 days to expiry
          callPrice |-> <<4473, 4008, 3557, 3124, 2714, 2329, 1975, 1652, 1364, 1110, 891, 704, 549, 422, 319, 238, 175>>,
          callDelta |-> <<9567, 9349, 9059, 8692, 8244, 7719, 7126, 6479, 5797, 5102, 4413, 3752, 3134, 2572, 2075, 1645, 1282>>,
          putPrice |-> <<52, 84, 130, 194, 280, 393, 535, 709, 918, 1161, 1439, 1750, 2091, 2461, 2855, 3271, 3705>>,
          putDelta |-> <<-433, -651, -941, -1308, -1756, -2281, -2874, -3521, -4203, -4898, -5587, -6248, -6866, -7428, -7925, -8355, -8718>> ]
       >>
    [] symbol = "US.SPY" /\ date = 24 -> << \* 2023-01-24, spot 329.69
        [ \* 7 days to expiry
          callPrice |-> <<4497, 3998, 3501, 3008, 2524, 2058, 1620, 1224, 883, 605, 392, 240, 138, 74, 38, 18, 8>>,
          callDelta |-> <<9993, 9977, 9931, 9819, 9587, 9166, 8496, 7557, 6388, 5093, 3807, 2658, 1728, 1046, 589, 308, 151>>,
          putPrice |-> <<1, 1, 3, 10, 26, 59, 121, 225, 383, 605, 891, 1238, 1636, 2072, 2535, 3014, 3504>>,
          putDelta |-> <<-7, -23, -69, -181, -413, -834, -1504, -2443, -3612, -4907, -6193, -7342, -8272, -8954, -9411, -9692, -9849>> ],
        [ \* 14 days to expiry
          callPrice |-> <<4532, 4042, 3559, 3089, 2637, 2209, 1813, 1455, 1140, 871, 648, 469, 330, 226, 150, 97, 61>>,
          callDelta |-> <<9893, 9790, 9617, 9348, 8959, 8435, 7772, 6987, 6111, 5190, 4271, 3404, 2624, 1957, 1412, 985, 665>>,
          putPrice |-> <<8, 17, 34, 63, 109, 181, 284, 425, 609, 839, 1115, 1435, 1795, 2190, 2613, 3059, 3522>>,
          putDelta |-> <<-107, -210, -383, -652, -1041, -1565, -2228, -3013, -3889, -4810, -5729, -6596, -7376, -8043, -8588, -9015, -9335>> ],
        [ \* 21 days to expiry
          callPrice |-> <<4580, 4103, 3638, 3190, 2761, 2359, 1986, 1647, 1344, 1079, 851, 660, 503, 377, 277, 200, 142>>,
          callDelta |-> <<9716, 9541, 9294, 8963, 8539, 8021, 7415, 6738, 6009, 5256, 4504, 3781, 3107, 2500, 1970, 1519, 1148>>,
          putPrice |-> <<30, 51, 85, 134, 205, 301, 426, 586, 781, 1015, 1286, 1594, 1935, 2307, 2706, 3128, 3568>>,
          putDelta |-> <<-284, -459, -706, -1037, -1461, -1979, -2585, -3262, -3991, -4744, -5496, -6219, -6893, -7500, -8030, -8481, -8852>> ],
        [ \* 30 days to expiry
          callPrice |-> <<4658, 4198, 3752, 3325, 2919, 2537, 2183, 1858, 1565, 1303, 1072, 872, 702, 558, 438, 340, 261>>,
          callDelta |-> <<9475, 9248, 8959, 8604, 8181, 7696, 7155, 6569, 5953, 5322, 4693, 4080, 3498, 2956, 2463, 2024, 1641>>,
          putPrice |-> <<72, 110, 162, 233, 325, 441, 585, 758, 962, 1198, 1466, 1764, 2091, 2445, 2824, 3224, 3643>>,
          putDelta |-> <<-525, -752, -1041, -1396, -1819, -2304, -2845, -3431, -4047, -4678, -5307, -5920, -6502, -7044, -7537, -7976, -8359>> ],
        [ \* 45 days to expiry
          callPrice |-> <<4806, 4369, 3948, 3546, 3165, 2805, 2470, 2160, 1875, 1616, 1383, 1175, 992, 831, 691, 570, 468>>,
          callDelta |-> <<9131, 8871, 8565, 8213, 7819, 7387, 6922, 6432, 5925, 5411, 4897, 4392, 3905, 3440, 3004, 2601, 2232>>,
          putPrice |-> <<161, 222, 298, 393, 508, 646, 807, 994, 1206, 1445, 1708, 1997, 2311, 2646, 3004, 3380, 3774>>,
          putDelta |-> <<-869, -1129, -1435, -1787, -2181, -2613, -3078, -3568, -4075, -4589, -5103, -5608, -6095, -6560, -6996, -7399, -7768>> ]
       >>
    [] symbol = "US.SPY" /\ date = 25 -> << \* 2023-01-25, spot 333.07
        [ \* 7 days to expiry
          callPrice |-> <<4352, 3868, 3396, 2939, 2503, 2096, 1721, 1386, 1092, 841, 633, 465, 334, 234, 160, 107, 69>>,
          callDelta |-> <<9800, 9646, 9410, 9072, 8618, 8041, 7351, 6568, 5724, 4859, 4013, 3223, 2515, 1907, 1405, 1007, 701>>,
          putPrice |-> <<17, 33, 60, 102, 167, 258, 384, 547, 753, 1002, 1294, 1625, 1993, 2393, 2818, 3265, 3727>>,
          putDelta |-> <<-200, -354, -590, -928, -1382, -1959, -2649, -3432, -4276, -5141, -5987, -6777, -7485, -8093, -8595, -8993, -9299>> ],
        [ \* 14 days to expiry
          callPrice |-> <<4465, 4014, 3580, 3165, 2774, 2408, 2070, 1761, 1483, 1236, 1019, 831, 670, 535, 423, 330, 255>>,
          callDelta |-> <<9315, 9052, 8728, 8340, 7892, 7389, 6839, 6254, 5649, 5037, 4433, 3851, 3302, 2794, 2333, 1924, 1566>>,
          putPrice |-> <<102, 150, 215, 300, 407, 540, 701, 892, 1113, 1365, 1647, 1958, 2296, 2660, 3047, 3453, 3877>>,
          putDelta |-> <<-685, -948, -1272, -1660, -2108, -2611, -3161, -3746, -4351, -4963, -5567, -6149, -6698, -7206, -7667, -8076, -8434>> ],
        [ \* 21 days to expiry
          callPrice |-> <<4606, 4181, 3773, 3384, 3017, 2673, 2353, 2057, 1787, 1542, 1322, 1125, 952, 800, 667, 553, 456>>,
          callDelta |-> <<8929, 8641, 8311, 7939, 7531, 7090, 6623, 6137, 5641, 5142, 4648, 4166, 3704, 3265, 2855, 2477, 2131>>,
          putPrice |-> <<216, 289, 380, 490, 621, 776, 954, 1157, 1385, 1639, 1917, 2219, 2544, 2891, 3257, 3642, 4043>>,
          putDelta |-> <<-1071, -1359, -1689, -2061, -2469, -2910, -3377, -3863, -4359, -4858, -5352, -5834, -6296, -6735, -7145, -7523, -7869>> ],
        [ \* 30 days to expiry
          callPrice |-> <<4796, 4395, 4010, 3643, 3296, 2969, 2663, 2378, 2114, 1871, 1649, 1447, 1264, 1100, 952, 822, 706>>,
          callDelta |-> <<8575, 8288, 7973, 7631, 7266, 6881, 6482, 6071, 5655, 5238, 4825, 4419, 4026, 3647, 3286, 2945, 2625>>,
          putPrice |-> <<370, 467, 580, 711, 862, 1033, 1225, 1438, 1672, 1927, 2203, 2498, 2813, 3147, 3498, 3865, 4247>>,
          putDelta |-> <<-1425, -1712, -2027, -2369, -2734, -3119, -3518, -3929, -4345, -4762, -5175, -5581, -5974, -6353, -6714, -7055, -7375>> ],
        [ \* 45 days to expiry
          callPrice |-> <<5106, 4731, 4371, 4028, 3702, 3392, 3101, 2826, 2569, 2329, 2105, 1899, 1708, 1532, 1371, 1224, 1090>>,
          callDelta |-> <<8196, 7928, 7643, 7343, 7029, 6705, 6374, 6037, 5697, 5357, 5020, 4688, 4362, 4046, 3739, 3445, 3163>>,
          putPrice |-> <<621, 743, 880, 1034, 1204, 1392, 1597, 1819, 2059, 2316, 2590, 2880, 3186, 3507, 3843, 4193, 4556>>,
          putDelta |-> <<-1804, -2072, -2357, -2657, -2971, -3295, -3626, -3963, -4303, -4643, -4980, -5312, -5638, -5954, -6261, -6555, -6837>> ]
       >>
    [] symbol = "US.QQQ" /\ date = 1 /\ cents = 35394 -> << \* 2023-01-01, spot 353.94
        [ \* 7 days to expiry
          callPrice |-> <<4424, 3924, 3425, 2927, 2432, 1947, 1484, 1063, 706, 430, 237, 117, 52, 20, 7, 2, 1>>,
          callDelta |-> <<10000, 9998, 9991, 9958, 9852, 9571, 8975, 7949, 6502, 4819, 3190, 1867, 962, 435, 172, 60, 18>>,
          putPrice |-> <<1, 1, 1, 2, 6, 21, 58, 136, 279, 502, 808, 1188, 1622, 2090, 2577, 3071, 3569>>,
          putDelta |-> <<0, -2, -9, -42, -148, -429, -1025, -2051, -3498, -5181, -6810, -8133, -9038, -9565, -9828, -9940, -9982>> ],
        [ \* 14 days to expiry
          callPrice |-> <<4454, 3957, 3463, 2975, 2499, 2044, 1619, 1238, 909, 638, 427, 272, 165, 95, 52, 27, 13>>,
          callDelta |-> <<9982, 9949, 9872, 9712, 9418, 8938, 8234, 7306, 6199, 5001, 3819, 2752, 1868, 1193, 717, 406, 216>>,
          putPrice |-> <<1, 3, 7, 19, 42, 85, 160, 278, 448, 676, 965, 1309, 1700, 2129, 2585, 3059, 3544>>,
          putDelta |-> <<-18, -51, -128, -288, -582, -1062, -1766, -2694, -3801, -4999, -6181, -7248, -8132, -8807, -9283, -9594, -9784>> ],
        [ \* 21 days to expiry
          callPrice |-> <<4489, 3997, 3512, 3038, 2581, 2148, 1748, 1386, 1070, 802, 583, 411, 280, 185, 118, 73, 43>>,
          callDelta |-> <<9919, 9832, 9678, 9425, 9046, 8519, 7836, 7013, 6085, 5106, 4133, 3223, 2419, 1747, 1214, 811, 522>>,
          putPrice |-> <<5, 12, 26, 51, 92, 158, 256, 393, 576, 806, 1086, 1412, 1780, 2183, 2615, 3068, 3537>>,
          putDelta |-> <<-81, -168, -322, -575, -954, -1481, -2164, -2987, -3915, -4894, -5867, -6777, -7581, -8253, -8786, -9189, -9478>> ],
        [ \* 30 days to expiry
          callPrice |-> <<4540, 4058, 3586, 3129, 2692, 2280, 1899, 1553, 1247, 981, 755, 570, 420, 303, 214, 148, 100>>,
          callDelta |-> <<9794, 9646, 9424, 9111, 8693, 8165, 7532, 6809, 6021, 5201, 4384, 3603, 2886, 2253, 1713, 1269, 917>>,
          putPrice |-> <<19, 35, 61, 102, 163, 249, 366, 518, 709, 941, 1214, 1526, 1875, 2256, 2664, 3096, 3546>>,
          putDelta |-> <<-206, -354, -576, -889, -1307, -1835, -2468, -3191, -3979, -4799, -5616, -6397, -7114, -7747, -8287, -8731, -9083>> ],
        [ \* 45 days to expiry
          callPrice |-> <<4639, 4174, 3723, 3288, 2875, 2486, 2125, 1795, 1497, 1232, 1001, 802, 634, 495, 381, 289, 216>>,
          callDelta |-> <<9559, 9349, 9073, 8726, 8303, 7809, 7249, 6636, 5987, 5318, 4649, 4000, 3385, 2818, 2307, 1859, 1473>>,
          putPrice |-> <<55, 87, 132, 195, 278, 386, 522, 689, 888, 1120, 1386, 1684, 2013, 2370, 2753, 3158, 3583>>,
          putDelta |-> <<-441, -651, -927, -1274, -1697, -2191, -2751, -3364, -4013, -4682, -5351, -6000, -6615, -7182, -7693, -8141, -8527>> ]
       >>
    [] symbol = "US.QQQ" /\ date = 2 /\ cents = 35821 -> << \* 2023-01-02, spot 358.21
        [ \* 7 days to expiry
          callPrice |-> <<4351, 3852, 3353, 2857, 2367, 1891, 1443, 1042, 704, 442, 255, 135, 65, 28, 11, 4, 1>>,
          callDelta |-> <<9999, 9993, 9972, 9905, 9728, 9342, 8640, 7565, 6168, 4621, 3149, 1939, 1075, 535, 240, 96, 35>>,
          putPrice |-> <<1, 1, 1, 4, 13, 37, 89, 187, 349, 586, 899, 1278, 1708, 2171, 2653, 3146, 3642>>,
          putDelta |-> <<-1, -7, -28, -95, -272, -658, -1360, -2435, -3832, -5379, -6851, -8061, -8925, -9465, -9760, -9904, -9965>> ],
        [ \* 14 days to expiry
          callPrice |-> <<4384, 3889, 3399, 2919, 2454, 2013, 1606, 1242, 928, 668, 462, 307, 196, 119, 70, 39, 21>>,
          callDelta |-> <<9955, 9893, 9769, 9545, 9180, 8639, 7906, 6995, 5955, 4858, 3786, 2813, 1990, 1339, 858, 523, 303>>,
          putPrice |-> <<3, 7, 16, 34, 69, 127, 219, 354, 539, 778, 1071, 1415, 1803, 2226, 2675, 3143, 3624>>,
          putDelta |-> <<-45, -107, -231, -455, -820, -1361, -2094, -3005, -4045, -5142, -6214, -7187, -8010, -8661, -9142, -9477, -9697>> ],
        [ \* 21 days to expiry
          callPrice |-> <<4424, 3938, 3461, 2998, 2555, 2138, 1754, 1408, 1105, 846, 632, 459, 325, 224, 151, 98, 62>>,
          callDelta |-> <<9846, 9715, 9508, 9201, 8774, 8218, 7536, 6747, 5883, 4987, 4104, 3275, 2532, 1898, 1377, 969, 661>>,
          putPrice |-> <<12, 25, 46, 82, 138, 219, 334, 487, 682, 922, 1206, 1532, 1897, 2294, 2719, 3165, 3628>>,
          putDelta |-> <<-154, -285, -492, -799, -1226, -1782, -2464, -3253, -4117, -5013, -5896, -6725, -7468, -8102, -8623, -9031, -9339>> ],
        [ \* 30 days to expiry
          callPrice |-> <<4486, 4012, 3552, 3108, 2686, 2290, 1925, 1593, 1297, 1039, 819, 634, 482, 360, 264, 190, 135>>,
          callDelta |-> <<9667, 9475, 9208, 8857, 8414, 7880, 7263, 6579, 5849, 5100, 4357, 3646, 2987, 2396, 1882, 1447, 1090>>,
          putPrice |-> <<36, 60, 98, 152, 228, 330, 462, 628, 831, 1071, 1348, 1661, 2007, 2383, 2785, 3209, 3652>>,
          putDelta |-> <<-333, -525, -792, -1143, -1586, -2120, -2737, -3421, -4151, -4900, -5643, -6354, -7013, -7604, -8118, -8553, -8910>> ],
        [ \* 45 days to expiry
          callPrice |-> <<4605, 4152, 3714, 3294, 2896, 2522, 2175, 1857, 1569, 1312, 1085, 887, 718, 574, 454, 356, 275>>,
          callDelta |-> <<9377, 9133, 8829, 8463, 8036, 7551, 7016, 6443, 5843, 5232, 4624, 4033, 3470, 2946, 2468, 2041, 1665>>,
          putPrice |-> <<91, 134, 193, 270, 369, 492, 642, 821, 1030, 1270, 1540, 1839, 2166, 2520, 2897, 3295, 3711>>,
          putDelta |-> <<-623, -867, -1171, -1537, -1964, -2449, -2984, -3557, -4157, -4768, -5376, -5967, -6530, -7054, -7532, -7959, -8335>> ]
       >>
    [] symbol = "US.QQQ" /\ date = 1 /\ cents = 10439 -> << \* 2023-01-01, spot 104.39
        [ \* 7 days to expiry
          callPrice |-> <<4445, 3945, 3446, 2946, 2447, 1947, 1448, 948, 451, 73, 1, 1, 1, 1, 1, 1, 1>>,
          callDelta |-> <<10000, 10000, 10000, 10000, 10000, 10000, 10000, 10000, 9728, 4206, 130, 0, 0, 0, 0, 0, 0>>,
          putPrice |-> <<1, 1, 1, 1, 1, 1, 1, 1, 3, 123, 552, 1050, 1549, 2049, 2549, 3048, 3548>>,
          putDelta |-> <<0, 0, 0, 0, 0, 0, 0, 0, -272, -5794, -9870, -10000, -10000, -10000, -10000, -10000, -10000>> ],
        [ \* 14 days to expiry
          callPrice |-> <<4450, 3951, 3452, 2953, 2454, 1955, 1456, 957, 471, 116, 9, 1, 1, 1, 1, 1, 1>>,
          callDelta |-> <<10000, 10000, 10000, 10000, 10000, 10000, 10000, 9985, 9189, 4585, 622, 18, 0, 0, 0, 0, 0>>,
          putPrice |-> <<1, 1, 1, 1, 1, 1, 1, 1, 13, 157, 549, 1039, 1538, 2037, 2536, 3035, 3534>>,
          putDelta |-> <<0, 0, 0, 0, 0, 0, 0, -15, -811, -5415, -9378, -9982, -10000, -10000, -10000, -10000, -10000>> ],
        [ \* 21 days to expiry
          callPrice |-> <<4456, 3958, 3459, 2961, 2462, 1963, 1465, 967, 493, 151, 22, 1, 1, 1, 1, 1, 1>>,
          callDelta |-> <<10000, 10000, 10000, 10000, 10000, 10000, 9999, 9931, 8794, 4784, 1105, 96, 3, 0, 0, 0, 0>>,
          putPrice |-> <<1, 1, 1, 1, 1, 1, 1, 1, 25, 182, 551, 1029, 1527, 2025, 2524, 3022, 3521>>,
          putDelta |-> <<0, 0, 0, 0, 0, 0, -1, -69, -1206, -5216, -8895, -9904, -9997, -10000, -10000, -10000, -10000>> ],
        [ \* 30 days to expiry
          callPrice |-> <<4464, 3966, 3468, 2970, 2472, 1974, 1476, 981, 521, 189, 41, 5, 1, 1, 1, 1, 1>>,
          callDelta |-> <<10000, 10000, 10000, 10000, 10000, 10000, 9994, 9818, 8447, 4951, 1609, 271, 24, 1, 0, 0, 0>>,
          putPrice |-> <<1, 1, 1, 1, 1, 1, 1, 3, 41, 207, 557, 1019, 1512, 2010, 2508, 3006, 3504>>,
          putDelta |-> <<0, 0, 0, 0, 0, 0, -6, -182, -1553, -5049, -8391, -9729, -9976, -9999, -10000, -10000, -10000>> ],
        [ \* 45 days to expiry
          callPrice |-> <<4476, 3979, 3482, 2985, 2488, 1991, 1495, 1007, 566, 244, 76, 16, 2, 1, 1, 1, 1>>,
          callDelta |-> <<10000, 10000, 10000, 10000, 10000, 9999, 9963, 9603, 8086, 5139, 2225, 633, 120, 15, 1, 0, 0>>,
          putPrice |-> <<1, 1, 1, 1, 1, 1, 1, 10, 66, 241, 569, 1007, 1490, 1984, 2481, 2978, 3475>>,
          putDelta |-> <<0, 0, 0, 0, 0, -1, -37, -397, -1914, -4861, -7775, -9367, -9880, -9985, -9999, -10000, -10000>> ]
       >>
    [] symbol = "US.QQQ" /\ date = 2 /\ cents = 10501 -> << \* 2023-01-02, spot 105.01
        [ \* 7 days to expiry
          callPrice |-> <<4007, 3508, 3008, 2509, 2009, 1512, 1029, 600, 284, 105, 30, 7, 1, 1, 1, 1, 1>>,
          callDelta |-> <<10000, 10000, 10000, 10000, 9994, 9910, 9397, 7828, 5196, 2580, 939, 252, 51, 8, 1, 0, 0>>,
          putPrice |-> <<1, 1, 1, 1, 1, 2, 19, 90, 273, 594, 1018, 1494, 1988, 2487, 2986, 3486, 3985>>,
          putDelta |-> <<0, 0, 0, 0, -6, -90, -603, -2172, -4804, -7420, -9061, -9748, -9949, -9992, -9999, -10000, -10000>> ],
        [ \* 14 days to expiry
          callPrice |-> <<4013, 3514, 3015, 2517, 2021, 1537, 1086, 699, 405, 209, 96, 39, 14, 5, 1, 1, 1>>,
          callDelta |-> <<10000, 10000, 9999, 9984, 9896, 9559, 8710, 7212, 5273, 3352, 1847, 886, 373, 139, 47, 14, 4>>,
          putPrice |-> <<1, 1, 1, 1, 4, 18, 66, 179, 384, 686, 1073, 1515, 1989, 2479, 2975, 3473, 3971>>,
          putDelta |-> <<0, 0, -1, -16, -104, -441, -1290, -2788, -4727, -6648, -8153, -9114, -9627, -9861, -9953, -9986, -9996>> ],
        [ \* 21 days to expiry
          callPrice |-> <<4020, 3521, 3023, 2527, 2039, 1571, 1145, 782, 498, 295, 162, 83, 40, 18, 8, 3, 1>>,
          callDelta |-> <<10000, 9998, 9987, 9927, 9723, 9222, 8292, 6937, 5332, 3745, 2403, 1413, 766, 385, 181, 80, 33>>,
          putPrice |-> <<1, 1, 1, 3, 13, 45, 117, 252, 467, 762, 1128, 1548, 2003, 2480, 2968, 3462, 3959>>,
          putDelta |-> <<0, -2, -13, -73, -277, -778, -1708, -3063, -4668, -6255, -7597, -8587, -9234, -9615, -9819, -9920, -9967>> ],
        [ \* 30 days to expiry
          callPrice |-> <<4028, 3530, 3034, 2544, 2069, 1621, 1218, 874, 598, 390, 243, 144, 82, 45, 24, 12, 6>>,
          callDelta |-> <<9998, 9988, 9945, 9809, 9487, 8883, 7954, 6749, 5396, 4059, 2876, 1924, 1219, 736, 424, 234, 125>>,
          putPrice |-> <<1, 1, 3, 11, 33, 83, 178, 332, 554, 844, 1195, 1594, 2030, 2491, 2967, 3454, 3946>>,
          putDelta |-> <<-2, -12, -55, -191, -513, -1117, -2046, -3251, -4604, -5941, -7124, -8076, -8781, -9264, -9576, -9766, -9875>> ],
        [ \* 45 days to expiry
          callPrice |-> <<4042, 3547, 3059, 2582, 2127, 1706, 1329, 1005, 738, 526, 364, 246, 162, 104, 65, 40, 24>>,
          callDelta |-> <<9985, 9942, 9828, 9584, 9151, 8496, 7625, 6593, 5483, 4388, 3382, 2516, 1811, 1264, 858, 568, 367>>,
          putPrice |-> <<1, 3, 12, 32, 74, 149, 270, 442, 672, 957, 1293, 1671, 2084, 2523, 2981, 3453, 3934>>,
          putDelta |-> <<-15, -58, -172, -416, -849, -1504, -2375, -3407, -4517, -5612, -6618, -7484, -8189, -8736, -9142, -9432, -9633>> ]
       >>
    [] symbol = "US.QQQ" /\ date = 3 /\ cents = 10487 -> << \* 2023-01-03, spot 104.87
        [ \* 7 days to expiry
          callPrice |-> <<4493, 3993, 3494, 2994, 2495, 1995, 1496, 1006, 562, 239, 72, 15, 2, 1, 1, 1, 1>>,
          callDelta |-> <<10000, 10000, 10000, 10000, 10000, 9999, 9966, 9612, 8085, 5095, 2162, 596, 108, 13, 1, 0, 0>>,
          putPrice |-> <<1, 1, 1, 1, 1, 1, 1, 10, 65, 242, 575, 1017, 1504, 2001, 2501, 3000, 3500>>,
          putDelta |-> <<0, 0, 0, 0, 0, -1, -34, -388, -1915, -4905, -7838, -9404, -9892, -9987, -9999, -10000, -10000>> ],
        [ \* 14 days to expiry
          callPrice |-> <<4498, 3999, 3500, 3001, 2502, 2004, 1513, 1047, 645, 344, 156, 60, 20, 5, 1, 1, 1>>,
          callDelta |-> <<10000, 10000, 10000, 10000, 9997, 9959, 9741, 8997, 7418, 5195, 3005, 1424, 556, 181, 50, 12, 2>>,
          putPrice |-> <<1, 1, 1, 1, 1, 1, 9, 42, 138, 336, 648, 1051, 1510, 1994, 2489, 2987, 3486>>,
          putDelta |-> <<0, 0, 0, 0, -3, -41, -259, -1003, -2582, -4805, -6995, -8576, -9444, -9819, -9950, -9988, -9998>> ],
        [ \* 21 days to expiry
          callPrice |-> <<4504, 4006, 3507, 3009, 2511, 2017, 1537, 1094, 715, 425, 228, 110, 48, 19, 7, 2, 1>>,
          callDelta |-> <<10000, 10000, 10000, 9997, 9974, 9857, 9467, 8580, 7109, 5264, 3443, 1984, 1012, 461, 188, 70, 24>>,
          putPrice |-> <<1, 1, 1, 1, 1, 5, 24, 79, 199, 408, 709, 1090, 1527, 1996, 2483, 2977, 3474>>,
          putDelta |-> <<0, 0, 0, -3, -26, -143, -533, -1420, -2891, -4736, -6557, -8016, -8988, -9539, -9812, -9930, -9976>> ],
        [ \* 30 days to expiry
          callPrice |-> <<4512, 4014, 3516, 3018, 2524, 2038, 1574, 1153, 794, 512, 309, 174, 92, 46, 21, 9, 4>>,
          callDelta |-> <<10000, 10000, 9998, 9982, 9911, 9685, 9160, 8224, 6892, 5333, 3794, 2481, 1496, 836, 436, 213, 98>>,
          putPrice |-> <<1, 1, 1, 1, 4, 16, 50, 127, 266, 482, 777, 1140, 1556, 2007, 2481, 2967, 3460>>,
          putDelta |-> <<0, 0, -2, -18, -89, -315, -840, -1776, -3108, -4667, -6206, -7519, -8504, -9164, -9564, -9787, -9902>> ],
        [ \* 45 days to expiry
          callPrice |-> <<4524, 4027, 3531, 3037, 2551, 2081, 1641, 1245, 907, 634, 425, 273, 169, 101, 58, 32, 18>>,
          callDelta |-> <<10000, 9997, 9981, 9921, 9757, 9402, 8778, 7862, 6705, 5425, 4159, 3025, 2092, 1380, 872, 529, 310>>,
          putPrice |-> <<1, 1, 1, 4, 15, 42, 98, 200, 359, 582, 870, 1215, 1608, 2037, 2491, 2962, 3444>>,
          putDelta |-> <<0, -3, -19, -79, -243, -598, -1222, -2138, -3295, -4575, -5841, -6975, -7908, -8620, -9128, -9471, -9690>> ]
       >>

\* The dates runBacktest iterates over: the calendar days startDate..endDate,
\* of which the model follows the first MaxDates, MaxUniverseDates of a run
\* over several symbols.
tradingDates(cfg) ==
  [i \in 1..Max(0, Min(cfg.endDate - cfg.startDate + 1,
                       IF Len(cfg.universe) > 1 THEN MaxUniverseDates ELSE MaxDates)) |->
     cfg.startDate + i - 1]

\* The prices generateMarketData gives a symbol of the configuration, in cents.
marketPrices(cfg, symbol) ==
  IF symbol \in DOMAIN MarketTableLongRun /\ cfg.endDate = 884
  THEN MarketTableLongRun[symbol]
  ELSE MarketTable[symbol]

\* BacktestEngine.marketData after loadData: symbol -> rows by date.
marketData(cfg) ==
  [symbol \in Range(cfg.universe) |->
     [i \in 1..Len(tradingDates(cfg)) |->
        [date   |-> tradingDates(cfg)[i],
         symbol |-> symbol,
         price  |-> Frac(marketPrices(cfg, symbol)[i], 100)]]]

marketRows(cfg, underlying) ==
  IF underlying \in Range(cfg.universe) THEN marketData(cfg)[underlying] ELSE <<>>

generateStrikes(price) ==
  LET baseStrike == MathFloor(fDiv(price, Num(5))) * 5
  IN  SelectSeq([i \in 1..17 |-> baseStrike + (i - 9) * 5], LAMBDA s : s > 0)

\* The options generateOptionData pushes for one market row, in its order:
\* by days to expiry, then by strike, CALL before PUT.
chainQuote(row, optionType, k) ==
  IF optionType = "CALL" THEN [price |-> row.callPrice[k], delta |-> row.callDelta[k]]
  ELSE [price |-> row.putPrice[k], delta |-> row.putDelta[k]]

\* The object generateOptionData pushes for one contract.
OptionRow(market, expiry, strike, optionType, quote) ==
  [date       |-> market.date,
   symbol     |-> <<market.symbol, expiry, strike, optionType>>,
   underlying |-> market.symbol,
   strike     |-> strike,
   expiry     |-> expiry,
   optionType |-> optionType,
   price      |-> Frac(quote.price, 100),
   delta      |-> Frac(quote.delta, 10000)]

generateOptionData(market) ==
  LET strikes    == generateStrikes(market.price)
      n          == Len(strikes)
      baseStrike == MathFloor(fDiv(market.price, Num(5))) * 5
      chain      == ChainTable(market.symbol, market.date,
                               MathFloor(fMul(market.price, Num(100))))
      option(dteIdx, strike, optionType) ==
        OptionRow(market, market.date + DaysToExpiry[dteIdx], strike, optionType,
                  chainQuote(chain[dteIdx], optionType, ((strike - baseStrike) \div 5) + 9))
  IN  [j \in 1..(Len(DaysToExpiry) * n * 2) |->
         option(((j - 1) \div (2 * n)) + 1,
                strikes[(((j - 1) % (2 * n)) \div 2) + 1],
                IF (j - 1) % 2 = 0 THEN "CALL" ELSE "PUT")]

\* BacktestEngine.optionData.get(`${underlying}_${date}`) || [].
optionData(cfg, underlying, date) ==
  LET market == FindFirst(marketRows(cfg, underlying),
                         dateMatches(marketRows(cfg, underlying), date))
  IN  IF market = Null THEN <<>> ELSE generateOptionData(market)

(***************************************************************************)
(* backtest.ts: BacktestEngine.                                            *)
(***************************************************************************)
\* randSeed = 123456789 = 1883 * 65536 + 52501, kept as <<high, low>> halves
\* of 16 bits.
InitialRandSeed == <<1883, 52501>>

\* (1664525 * randSeed + 1013904223) >>> 0, with 1664525 = 25 * 65536 + 26125
\* and 1013904223 = 15470 * 65536 + 62303.
lcgNext(seed) ==
  LET low == 26125 * seed[2] + 62303
  IN  << (25 * seed[2] + ((26125 * seed[1]) % 65536) + (low \div 65536) + 15470) % 65536,
         low % 65536 >>

\* rnd(): the new seed and randSeed / 4294967296, of which the four leading
\* bits are kept.
rnd(seed) ==
  [seed |-> lcgNext(seed), value |-> Frac(lcgNext(seed)[1] \div 4096, 16)]

\* arr.reduce((best, x) => |metric(x) - target| < |metric(best) - target| ? x : best):
\* the first element at the least distance from the target.
\* The metric is given by its value at each index of arr.
nearestBy(arr, metric, target) ==
  LET distance == [i \in 1..Len(arr) |-> MathAbs(fSub(metric[i], target))]
      best     == CHOOSE i \in 1..Len(arr) :
                    /\ \A j \in 1..Len(arr) : fLe(distance[i], distance[j])
                    /\ \A j \in 1..(i - 1) : fLt(distance[i], distance[j])
  IN  arr[best]

Trade(opt, side) ==
  [symbol |-> opt.symbol, side |-> side, quantity |-> 1, price |-> opt.price]

IsCall(opt) == opt.optionType = "CALL"

IsPut(opt) == opt.optionType = "PUT"

buildDebitCallVertical(options) ==
  LET callOptions == SelectSeq(options, IsCall)
  IN  IF Len(callOptions) < 2 THEN <<>>
      ELSE LET longCall  == nearestBy(callOptions, [i \in 1..Len(callOptions) |-> MathAbs(callOptions[i].delta)], Frac(30, 100))
               higher    == FindFirst(callOptions, [i \in 1..Len(callOptions) |->
                                                     callOptions[i].strike > longCall.strike])
               shortCall == IF higher # Null THEN higher
                            ELSE nearestBy(callOptions, [i \in 1..Len(callOptions) |-> Num(callOptions[i].strike)],
                                           Num(longCall.strike + 5))
           IN  << Trade(longCall, "BUY"), Trade(shortCall, "SELL") >>

buildCreditPutSpread(options) ==
  LET putOptions == SelectSeq(options, IsPut)
  IN  IF Len(putOptions) < 2 THEN <<>>
      ELSE LET shortPut == nearestBy(putOptions, [i \in 1..Len(putOptions) |-> MathAbs(putOptions[i].delta)], Frac(22, 100))
               longPut  == nearestBy(putOptions, [i \in 1..Len(putOptions) |-> Num(putOptions[i].strike)],
                                     Num(shortPut.strike - 5))
           IN  << Trade(shortPut, "SELL"), Trade(longPut, "BUY") >>

\* What a call of a builder comes to: the list it returns, or the exception
\* it raises.
Returned(tradeList) == [threw |-> FALSE, trades |-> tradeList]

\* calls.reduce(...) without an initial value, on an empty array.
TypeError == [threw |-> TRUE, trades |-> <<>>]

buildATMStraddle(cfg, date, options, underlying) ==
  LET market == FindFirst(marketRows(cfg, underlying),
                         dateMatches(marketRows(cfg, underlying), date))
  IN  IF market = Null THEN Returned(<<>>)
      ELSE LET callOptions   == SelectSeq(options, IsCall)
               putOptions    == SelectSeq(options, IsPut)
           IN  IF Len(callOptions) = 0 THEN TypeError
               ELSE LET atmCall == nearestBy(callOptions, [i \in 1..Len(callOptions) |-> Num(callOptions[i].strike)], market.price)
                        atmPut  == FindFirst(putOptions, [i \in 1..Len(putOptions) |->
                                                           putOptions[i].strike = atmCall.strike])
                    IN  IF atmPut = Null THEN Returned(<<>>)
                        ELSE Returned(<< Trade(atmCall, "BUY"), Trade(atmPut, "BUY") >>)

\* The lists buildCashSecuredPut can return: selectedPut is
\* puts[Math.floor(Math.random() * puts.length)].
buildCashSecuredPut(options) ==
  LET puts == SelectSeq(options,
                LAMBDA opt : /\ IsPut(opt)
                             /\ opt.delta # Zero
                             /\ fGt(MathAbs(opt.delta), Frac(2, 10))
                             /\ fLt(MathAbs(opt.delta), Frac(3, 10)))
  IN  IF Len(puts) = 0 THEN { <<>> }
      ELSE { << Trade(puts[i], "SELL") >> : i \in 1..Len(puts) }

buildCrashHedge(options) ==
  LET hedgeUniverse == SelectSeq(options, IsPut)
  IN  IF Len(hedgeUniverse) = 0 THEN <<>>
      ELSE << Trade(nearestBy(hedgeUniverse, [i \in 1..Len(hedgeUniverse) |-> MathAbs(hedgeUniverse[i].delta)], Frac(8, 100)),
                    "BUY") >>

\* The switch of executeStrategy: what the call of the strategy's builder can
\* come to.
buildTrades(cfg, date, strategy, validOptions, underlying) ==
  CASE strategy = "debit_call_vertical" ->
         { Returned(buildDebitCallVertical(validOptions)) }
    [] strategy = "credit_put_spread"   ->
         { Returned(buildCreditPutSpread(validOptions)) }
    [] strategy = "atm_straddle"        ->
         { buildATMStraddle(cfg, date, validOptions, underlying) }
    [] strategy = "cash_secured_put"    ->
         { Returned(built) : built \in buildCashSecuredPut(validOptions) }
    [] strategy = "crash_hedge"         ->
         { Returned(buildCrashHedge(validOptions)) }
    [] OTHER                            -> { Returned(<<>>) }

\* calculatePortfolioValue: the value it returns and the portfolio it leaves
\* (expired positions are deleted).
calculatePortfolioValue_keepsExpired(cfg, cashNow, positions, date) ==
  LET surface     == [u \in { s[1] : s \in DOMAIN positions } |->
                        optionData(cfg, u, date)]
      todayOpt(s) == FindFirst(surface[s[1]], symbolMatches(surface[s[1]], s))
      expired(s)  == todayOpt(s) = Null /\ date > s[2]
      intrinsic(s) ==
        LET atExp == FindFirst(marketRows(cfg, s[1]), dateMatches(marketRows(cfg, s[1]), s[2]))
        IN  IF atExp = Null THEN Zero
            ELSE IF s[4] = "CALL" THEN MathMax(Zero, fSub(atExp.price, Num(s[3])))
            ELSE IF s[4] = "PUT" THEN MathMax(Zero, fSub(Num(s[3]), atExp.price))
            ELSE Zero
      worth == [s \in DOMAIN positions |->
                  IF todayOpt(s) # Null
                  THEN fMul(fMul(todayOpt(s).price, Num(positions[s])), Num(100))
                  ELSE IF expired(s)
                  THEN fMul(fMul(intrinsic(s), Num(positions[s])), Num(100))
                  ELSE Zero]
  IN  [value     |-> fAdd(cashNow, SumOver(DOMAIN positions, worth)),
       portfolio |-> positions]

calculatePortfolioValue(cfg, cashNow, positions, date) ==
  LET surface     == [u \in { s[1] : s \in DOMAIN positions } |->
                        optionData(cfg, u, date)]
      todayOpt(s) == FindFirst(surface[s[1]], symbolMatches(surface[s[1]], s))
      expired(s)  == todayOpt(s) = Null /\ date > s[2]
      intrinsic(s) ==
        LET atExp == FindFirst(marketRows(cfg, s[1]), dateMatches(marketRows(cfg, s[1]), s[2]))
        IN  IF atExp = Null THEN Zero
            ELSE IF s[4] = "CALL" THEN MathMax(Zero, fSub(atExp.price, Num(s[3])))
            ELSE IF s[4] = "PUT" THEN MathMax(Zero, fSub(Num(s[3]), atExp.price))
            ELSE Zero
      worth == [s \in DOMAIN positions |->
                  IF todayOpt(s) # Null
                  THEN fMul(fMul(todayOpt(s).price, Num(positions[s])), Num(100))
                  ELSE IF expired(s)
                  THEN fMul(fMul(intrinsic(s), Num(positions[s])), Num(100))
                  ELSE Zero]
  IN  [value     |-> fAdd(cashNow, SumOver(DOMAIN positions, worth)),
       portfolio |-> [s \in { h \in DOMAIN positions : ~expired(h) } |-> positions[s]]]

\* The values Math.random() returns in calculateMetrics.
RandomDraws == { Frac(1, 10), Frac(19, 20) }

\* The values the simplified P&L of calculateMetrics can take for one trade.
tradePnL(trade) ==
  LET amount == fMul(fMul(trade.price, Num(trade.quantity)), Num(100))
  IN  CASE trade.strategy = "debit_call_vertical" ->
             LET pnl == IF trade.side = "BUY" THEN fNeg(amount) ELSE amount
             IN  { fAdd(pnl, fMul(fMul(fSub(r, Frac(4, 10)), MathAbs(pnl)), Num(2))) :
                     r \in RandomDraws }
        [] trade.strategy = "credit_put_spread" ->
             LET pnl == IF trade.side = "SELL" THEN amount ELSE fNeg(amount)
             IN  { fMul(pnl, IF fGt(r, Frac(25, 100)) THEN Frac(8, 10) ELSE Frac(-25, 10)) :
                     r \in RandomDraws }
        [] trade.strategy = "atm_straddle" ->
             LET pnl == IF trade.side = "BUY" THEN fNeg(amount) ELSE amount
             IN  { fMul(pnl, IF fLt(r1, Frac(3, 10)) THEN Frac(-5, 10)
                             ELSE fMul(fSub(r2, Frac(2, 10)), Num(3))) :
                     r1 \in RandomDraws, r2 \in RandomDraws }
        [] OTHER ->
             { fMul(fMul(fMul(fSub(r, Frac(45, 100)), trade.price), Num(trade.quantity)),
                    Num(100)) : r \in RandomDraws }

\* The numbers of profitable trades (pnl > 0) calculateMetrics can count.
RECURSIVE profitableTrades(_)
profitableTrades(ts) ==
  IF ts = <<>> THEN { 0 }
  ELSE { w + (IF fGt(pnl, Zero) THEN 1 ELSE 0) :
           w \in profitableTrades(Tail(ts)), pnl \in tradePnL(Head(ts)) }

\* The metrics calculateMetrics can return for a non-empty dailyPnL.  Of
\* PortfolioMetrics the fields totalReturn, maxDrawdown, winRate and
\* totalTrades are kept; annualizedReturn, volatility and sharpeRatio are
\* Math.pow and Math.sqrt of the same dailyPnL.
calculateMetrics(cfg, pnls, ts) ==
  LET n           == Len(pnls)
      finalValue  == fAdd(cfg.initialCapital, pnls[n].cumPnL)
      totalReturn == fDiv(fSub(finalValue, cfg.initialCapital), cfg.initialCapital)
      scan[i \in 0..n] ==
        IF i = 0 THEN [peak |-> cfg.initialCapital, maxDrawdown |-> Zero]
        ELSE LET previous     == scan[i - 1]
                 currentValue == fAdd(cfg.initialCapital, pnls[i].cumPnL)
                 peak         == IF fGt(currentValue, previous.peak) THEN currentValue
                                 ELSE previous.peak
                 drawdown     == fDiv(fSub(peak, currentValue), peak)
             IN  [peak        |-> peak,
                  maxDrawdown |-> IF fGt(drawdown, previous.maxDrawdown) THEN drawdown
                                  ELSE previous.maxDrawdown]
  IN  { [totalReturn |-> totalReturn,
         maxDrawdown |-> scan[n].maxDrawdown,
         winRate     |-> IF Len(ts) > 0 THEN Frac(w, Len(ts)) ELSE Zero,
         totalTrades |-> Len(ts)] : w \in profitableTrades(ts) }

BacktestConfig(universe, strats, initialCapital, endDate) ==
  [startDate |-> 1, endDate |-> endDate, initialCapital |-> Num(initialCapital),
   universe |-> universe, strategies |-> strats,
   commissionPerContract |-> Frac(150, 100)]

\* Configurations the command line can produce (--universe, --strategies,
\* --capital, --end-date); the first has its default strategies and capital,
\* the second and third end on 2025-06-02 (which the bounds on the dates cut
\* short), the last has an end date before the start date.
BacktestConfigs ==
  { BacktestConfig(<<"US.SPY">>,
                   <<"debit_call_vertical", "credit_put_spread", "atm_straddle">>,
                   10000, 2),
    BacktestConfig(<<"US.SPY">>, <<"atm_straddle">>, 3000, 884),
    BacktestConfig(<<"US.SPY", "US.QQQ">>, <<"debit_call_vertical">>, 0, 884),
    BacktestConfig(<<"US.SPY">>, <<"credit_put_spread">>, 10000, 24),
    BacktestConfig(<<"US.SPY", "US.QQQ">>, <<"debit_call_vertical">>, 0, 2),
    BacktestConfig(<<"US.SPY">>, <<"cash_secured_put">>, 500, 2),
    BacktestConfig(<<"US.SPY", "US.QQQ">>, <<"crash_hedge", "covered_call">>, 200, 2),
    BacktestConfig(<<"US.SPY">>, <<"atm_straddle">>, 10000, 0) }

\* Configurations run twice.
RepeatedConfigs ==
  { BacktestConfig(<<"US.SPY">>, <<"debit_call_vertical">>, 10000, 2),
    BacktestConfig(<<"US.SPY", "US.QQQ">>, <<"crash_hedge">>, 10000, 2) }

\* new BacktestEngine(config) and the start of runBacktest: loadData and the
\* locals of the loop over tradingDates.
NewBacktest(cfg) ==
  /\ btConfig = cfg
  /\ btPc = "dates"
  /\ cash = cfg.initialCapital
  /\ portfolio = <<>>
  /\ trades = <<>>
  /\ randSeed = InitialRandSeed
  /\ currentDate = 0
  /\ dateIdx = 1
  /\ btStrategyIdx = 0
  /\ pendingTrades = <<>>
  /\ dayStartValue = Zero
  /\ dailyPnL = <<>>
  /\ cumPnL = Zero
  /\ result = Null

notBacktest == UNCHANGED <<engineVars, botVars, genVars>>

\* Head of the loop over tradingDates: currentDate and dayStartValue.
BeginDate ==
  /\ btPc = "dates"
  /\ dateIdx <= Len(tradingDates(btConfig))
  /\ currentDate' = tradingDates(btConfig)[dateIdx]
  /\ LET start == calculatePortfolioValue(btConfig, cash, portfolio, currentDate')
     IN  /\ dayStartValue' = start.value
         /\ portfolio' = start.portfolio
  /\ btStrategyIdx' = 1
  /\ btPc' = "strategies"
  /\ UNCHANGED <<btConfig, btRun, firstResult, cash, trades, randSeed, dateIdx,
                 pendingTrades, dailyPnL, cumPnL, result>>
  /\ notBacktest

\* executeStrategy up to its loop over the trades; the underlying is
\* universe[Math.floor(Math.random() * universe.length)].
executeStrategy ==
  /\ btPc = "strategies"
  /\ pendingTrades = <<>>
  /\ btStrategyIdx <= Len(btConfig.strategies)
  /\ \E u \in 1..Len(btConfig.universe) :
       LET strategy         == btConfig.strategies[btStrategyIdx]
           underlying       == btConfig.universe[u]
           availableOptions == optionData(btConfig, underlying, currentDate)
           validOptions     == SelectSeq(availableOptions,
                                 LAMBDA opt : /\ opt.expiry - currentDate >= 21
                                              /\ opt.expiry - currentDate <= 45)
       IN  IF Len(availableOptions) = 0 \/ Len(validOptions) = 0
           THEN pendingTrades' = <<>> /\ UNCHANGED btPc
           ELSE \E built \in buildTrades(btConfig, currentDate, strategy, validOptions,
                                         underlying) :
                  /\ pendingTrades' =
                       [i \in 1..Len(built.trades) |->
                          [symbol |-> built.trades[i].symbol, side |-> built.trades[i].side,
                           quantity |-> built.trades[i].quantity,
                           price |-> built.trades[i].price,
                           strategy |-> strategy]]
                  \* an exception of the builder leaves runBacktest
                  /\ btPc' = IF built.threw THEN "failed" ELSE btPc
  /\ btStrategyIdx' = btStrategyIdx + 1
  /\ UNCHANGED <<btConfig, btRun, firstResult, cash, portfolio, trades, randSeed,
                 currentDate, dateIdx, dayStartValue, dailyPnL, cumPnL, result>>
  /\ notBacktest

\* commission = commissionPerContract * quantity.
tradeCommission(trade) == fMul(btConfig.commissionPerContract, Num(trade.quantity))

tradeGross_perShare(trade, executedPrice) ==
  fMul(executedPrice, Num(trade.quantity))

\* gross = executedPrice * quantity * 100.
tradeGross(trade, executedPrice) ==
  fMul(fMul(executedPrice, Num(trade.quantity)), Num(100))

slippedPrice_favourable(trade, seed) ==
  LET slippagePct == fAdd(Frac(5, 1000), fMul(rnd(seed).value, Frac(15, 1000)))
  IN  MathMax(Frac(1, 100),
              fAdd(trade.price,
                   fMul(fMul(trade.price, slippagePct),
                        IF trade.side = "BUY" THEN fNeg(One) ELSE One)))

\* executedPrice = Math.max(0.01, price + price * slippagePct * (BUY ? 1 : -1))
\* with slippagePct = 0.005 + rnd() * 0.015 drawn from the given seed.
slippedPrice(trade, seed) ==
  LET slippagePct == fAdd(Frac(5, 1000), fMul(rnd(seed).value, Frac(15, 1000)))
  IN  MathMax(Frac(1, 100),
              fAdd(trade.price,
                   fMul(fMul(trade.price, slippagePct),
                        IF trade.side = "BUY" THEN One ELSE fNeg(One))))

\* side === "BUY" && gross + commission > this.cash.
insufficientFunds(trade, seed, cashNow) ==
  /\ trade.side = "BUY"
  /\ fGt(fAdd(tradeGross(trade, slippedPrice(trade, seed)), tradeCommission(trade)),
         cashNow)

executeTrade_noFundsCheck ==
  /\ btPc = "strategies"
  /\ pendingTrades # <<>>
  /\ LET trade         == Head(pendingTrades)
         commission    == tradeCommission(trade)
         executedPrice == slippedPrice(trade, randSeed)
         gross         == tradeGross(trade, executedPrice)
         currentPosition == IF trade.symbol \in DOMAIN portfolio
                            THEN portfolio[trade.symbol] ELSE 0
         newPosition   == currentPosition
                            + (IF trade.side = "BUY" THEN trade.quantity ELSE -trade.quantity)
     IN  /\ randSeed' = rnd(randSeed).seed
         /\ portfolio' =
              IF newPosition = 0
              THEN [s \in DOMAIN portfolio \ {trade.symbol} |-> portfolio[s]]
              ELSE [s \in DOMAIN portfolio \cup {trade.symbol} |->
                      IF s = trade.symbol THEN newPosition ELSE portfolio[s]]
         /\ cash' = IF trade.side = "BUY"
                    THEN fSub(cash, fAdd(gross, commission))
                    ELSE fAdd(cash, fSub(gross, commission))
         /\ trades' = Append(trades,
                        [date |-> currentDate, symbol |-> trade.symbol,
                         side |-> trade.side, quantity |-> trade.quantity,
                         price |-> executedPrice, commission |-> commission,
                         strategy |-> trade.strategy])
  /\ pendingTrades' = Tail(pendingTrades)
  /\ UNCHANGED <<btConfig, btRun, firstResult, btPc, currentDate, dateIdx, btStrategyIdx,
                 dayStartValue, dailyPnL, cumPnL, result>>
  /\ notBacktest

\* executeTrade for the next trade of the strategy.
executeTrade_keepsZero ==
  /\ btPc = "strategies"
  /\ pendingTrades # <<>>
  /\ LET trade         == Head(pendingTrades)
         commission    == tradeCommission(trade)
         executedPrice == slippedPrice(trade, randSeed)
         gross         == tradeGross(trade, executedPrice)
         currentPosition == IF trade.symbol \in DOMAIN portfolio
                            THEN portfolio[trade.symbol] ELSE 0
         newPosition   == currentPosition
                            + (IF trade.side = "BUY" THEN trade.quantity ELSE -trade.quantity)
     IN  /\ randSeed' = rnd(randSeed).seed
         /\ IF insufficientFunds(trade, randSeed, cash)
            THEN UNCHANGED <<portfolio, cash, trades>>
            ELSE /\ portfolio' =
                      [s \in DOMAIN portfolio \cup {trade.symbol} |->
                         IF s = trade.symbol THEN newPosition ELSE portfolio[s]]
                 /\ cash' = IF trade.side = "BUY"
                            THEN fSub(cash, fAdd(gross, commission))
                            ELSE fAdd(cash, fSub(gross, commission))
                 /\ trades' = Append(trades,
                                [date |-> currentDate, symbol |-> trade.symbol,
                                 side |-> trade.side, quantity |-> trade.quantity,
                                 price |-> executedPrice, commission |-> commission,
                                 strategy |-> trade.strategy])
  /\ pendingTrades' = Tail(pendingTrades)
  /\ UNCHANGED <<btConfig, btRun, firstResult, btPc, currentDate, dateIdx, btStrategyIdx,
                 dayStartValue, dailyPnL, cumPnL, result>>
  /\ notBacktest

executeTrade ==
  /\ btPc = "strategies"
  /\ pendingTrades # <<>>
  /\ LET trade         == Head(pendingTrades)
         commission    == tradeCommission(trade)
         executedPrice == slippedPrice(trade, randSeed)
         gross         == tradeGross(trade, executedPrice)
         currentPosition == IF trade.symbol \in DOMAIN portfolio
                            THEN portfolio[trade.symbol] ELSE 0
         newPosition   == currentPosition
                            + (IF trade.side = "BUY" THEN trade.quantity ELSE -trade.quantity)
     IN  /\ randSeed' = rnd(randSeed).seed
         /\ IF insufficientFunds(trade, randSeed, cash)
            THEN UNCHANGED <<portfolio, cash, trades>>
            ELSE /\ portfolio' =
                      IF newPosition = 0
                      THEN [s \in DOMAIN portfolio \ {trade.symbol} |-> portfolio[s]]
                      ELSE [s \in DOMAIN portfolio \cup {trade.symbol} |->
                              IF s = trade.symbol THEN newPosition ELSE portfolio[s]]
                 /\ cash' = IF trade.side = "BUY"
                            THEN fSub(cash, fAdd(gross, commission))
                            ELSE fAdd(cash, fSub(gross, commission))
                 /\ trades' = Append(trades,
                                [date |-> currentDate, symbol |-> trade.symbol,
                                 side |-> trade.side, quantity |-> trade.quantity,
                                 price |-> executedPrice, commission |-> commission,
                                 strategy |-> trade.strategy])
  /\ pendingTrades' = Tail(pendingTrades)
  /\ UNCHANGED <<btConfig, btRun, firstResult, btPc, currentDate, dateIdx, btStrategyIdx,
                 dayStartValue, dailyPnL, cumPnL, result>>
  /\ notBacktest

\* End of the loop body: dayEndValue, dailyReturn, cumPnL and the dailyPnL row.
EndDate ==
  /\ btPc = "strategies"
  /\ pendingTrades = <<>>
  /\ btStrategyIdx > Len(btConfig.strategies)
  /\ LET end         == calculatePortfolioValue(btConfig, cash, portfolio, currentDate)
         dailyReturn == fSub(end.value, dayStartValue)
     IN  /\ portfolio' = end.portfolio
         /\ cumPnL' = fAdd(cumPnL, dailyReturn)
         /\ dailyPnL' = Append(dailyPnL, [date |-> currentDate, pnl |-> dailyReturn,
                                          cumPnL |-> cumPnL'])
  /\ dateIdx' = dateIdx + 1
  /\ btPc' = "dates"
  /\ UNCHANGED <<btConfig, btRun, firstResult, cash, trades, randSeed, currentDate,
                 btStrategyIdx, pendingTrades, dayStartValue, result>>
  /\ notBacktest

\* After the loop: calculateMetrics, which reads dailyPnL[dailyPnL.length - 1]
\* and throws a TypeError on an empty dailyPnL, and the returned result.
ReturnResult ==
  /\ btPc = "dates"
  /\ dateIdx > Len(tradingDates(btConfig))
  /\ IF dailyPnL = <<>>
     THEN /\ btPc' = "failed"
          /\ UNCHANGED result
     ELSE /\ btPc' = "returned"
          /\ \E metrics \in calculateMetrics(btConfig, dailyPnL, trades) :
               result' = [trades |-> trades, dailyPnL |-> dailyPnL, metrics |-> metrics]
  /\ UNCHANGED <<btConfig, btRun, firstResult, cash, portfolio, trades, randSeed,
                 currentDate, dateIdx, btStrategyIdx, pendingTrades, dayStartValue,
                 dailyPnL, cumPnL>>
  /\ notBacktest

\* A second execution with the same configuration, on a new engine.
RunAgain ==
  /\ btPc = "returned"
  /\ btRun = 1
  /\ btRun' = 2
  /\ firstResult' = result
  /\ btConfig' = btConfig
  /\ btPc' = "dates"
  /\ cash' = btConfig.initialCapital
  /\ portfolio' = <<>>
  /\ trades' = <<>>
  /\ randSeed' = InitialRandSeed
  /\ currentDate' = 0
  /\ dateIdx' = 1
  /\ btStrategyIdx' = 0
  /\ pendingTrades' = <<>>
  /\ dayStartValue' = Zero
  /\ dailyPnL' = <<>>
  /\ cumPnL' = Zero
  /\ result' = Null
  /\ notBacktest

InitNoBot ==
  /\ lastRebalanceWeek = 0
  /\ rebalanceArg = 0
  /\ arg = [op |-> "none"]
  /\ ret = [op |-> "new"]
  /\ NoProcess
  /\ stateFile = Null
  /\ dryRun = TRUE
  /\ enableTradeLogging = TRUE
  /\ strategies = <<>>

InitBacktest ==
  /\ InitNoBot
  /\ NoGenerator
  /\ btRun = 1
  /\ firstResult = Null
  /\ \E cfg \in BacktestConfigs : NewBacktest(cfg)

NextBacktest ==
  \/ BeginDate
  \/ executeStrategy
  \/ executeTrade
  \/ EndDate
  \/ ReturnResult

SpecBacktest == InitBacktest /\ [][NextBacktest]_vars

InitRepeated ==
  /\ InitNoBot
  /\ NoGenerator
  /\ btRun = 1
  /\ firstResult = Null
  /\ \E cfg \in RepeatedConfigs : NewBacktest(cfg)

NextRepeated ==
  \/ BeginDate
  \/ executeStrategy
  \/ executeTrade
  \/ EndDate
  \/ ReturnResult
  \/ RunAgain

SpecRepeated == InitRepeated /\ [][NextRepeated]_vars

(***************************************************************************)
(* backtest.ts: MockDataGenerator.  A 32-bit word is the pair of its       *)
(* 16-bit halves <<high, low>>.  Money is in cents, implied volatility in  *)
(* 1/10000; a draw of rnd() enters the arithmetic by the leading bits of   *)
(* its word.                                                               *)
(***************************************************************************)
MaxGenDays == 2

RECURSIVE BitXor(_, _, _)
BitXor(a, b, n) ==
  IF n = 0 THEN 0 ELSE ((a + b) % 2) + 2 * BitXor(a \div 2, b \div 2, n - 1)

RECURSIVE BitOr(_, _, _)
BitOr(a, b, n) ==
  IF n = 0 THEN 0
  ELSE (IF a % 2 = 1 \/ b % 2 = 1 THEN 1 ELSE 0) + 2 * BitOr(a \div 2, b \div 2, n - 1)

RECURSIVE Pow2(_)
Pow2(k) == IF k = 0 THEN 1 ELSE 2 * Pow2(k - 1)

\* a ^ b
wXor(a, b) == <<BitXor(a[1], b[1], 16), BitXor(a[2], b[2], 16)>>

\* a | b
wOr(a, b) == <<BitOr(a[1], b[1], 16), BitOr(a[2], b[2], 16)>>

\* a >>> k, 0 < k < 16
wShr(a, k) ==
  <<a[1] \div Pow2(k), ((a[1] % Pow2(k)) * Pow2(16 - k)) + (a[2] \div Pow2(k))>>

\* a + b modulo 2^32
wAdd(a, b) ==
  <<(a[1] + b[1] + ((a[2] + b[2]) \div 65536)) % 65536, (a[2] + b[2]) % 65536>>

\* The 32-bit product of two 16-bit numbers.
Mul16(x, y) ==
  LET p1 == (x \div 256) * y
      p0 == (x % 256) * y
      q  == ((p1 % 256) * 256) + p0
  IN  <<((p1 \div 256) + (q \div 65536)) % 65536, q % 65536>>

MathImul(a, b) ==
  LET low == Mul16(a[2], b[2])
  IN  <<(low[1] + Mul16(a[1], b[2])[2] + Mul16(a[2], b[1])[2]) % 65536, low[2]>>

\* MockDataGenerator.rnd (mulberry32): the new s and the word whose value
\* divided by 2^32 is returned.
mulberry32(s) ==
  LET s1 == wAdd(s, <<27947, 31221>>)
      t1 == MathImul(wXor(s1, wShr(s1, 15)), wOr(<<0, 1>>, s1))
      t2 == wXor(t1, wAdd(t1, MathImul(wXor(t1, wShr(t1, 7)), wOr(<<0, 61>>, t1))))
  IN  [s |-> s1, out |-> wXor(t2, wShr(t2, 14))]

\* n successive calls of rnd() from state s.
RECURSIVE drawSeq(_, _)
drawSeq(s, n) ==
  IF n = 0 THEN <<>>
  ELSE LET d == CHOOSE x \in { mulberry32(s) } : TRUE
       IN  <<d>> \o drawSeq(d.s, n - 1)

\* 100 + rnd() * 400, in cents.
startPrice(word) == 10000 + ((word[1] * 625) \div 1024)

\* currentPrice * (1 + (rnd() - 0.48) * 0.03), in cents.
nextPrice(price, word) ==
  price + ((((price * ((word[1] \div 2) - 15729)) \div 32768) * 3) \div 100)

\* Math.floor(1000000 + rnd() * 5000000)
drawVolume(word) == 1000000 + (((word[1] \div 4) * 78125) \div 256)

\* 0.15 + rnd() * 0.35, in 1/10000.
drawImpliedVol(word) == 1500 + ((word[1] * 3500) \div 65536)

\* Math.floor(100 + rnd() * 2000)
drawOpenInterest(word) == 100 + ((word[1] * 2000) \div 65536)

\* Seeds, symbol lists and date ranges (startDate is day 1, endDate the last
\* day; endDate 0 is an empty range).
GeneratorInputs ==
  { [seed |-> seed, symbols |-> symbols, endDate |-> endDate] :
      seed \in {42, 7},
      symbols \in { <<"US.SPY">>, <<"US.SPY", "US.QQQ">> },
      endDate \in 0..MaxGenDays }

\* new MockDataGenerator(seed) followed by the call of generateMarketData.
NewGenerator(input) ==
  /\ genInput = input
  /\ genPc = "generateMarketData"
  /\ genS = <<0, input.seed>>
  /\ genSymIdx = 1
  /\ genDay = 0
  /\ genPrice = 0
  /\ genMarket = <<>>
  /\ genRow = 0
  /\ genDteIdx = 0
  /\ genOptions = <<>>

notGenerator == UNCHANGED <<engineVars, botVars, btVars>>

\* generateMarketData, head of the loop over symbols: the starting price.
StartSymbol ==
  /\ genPc = "generateMarketData"
  /\ genSymIdx <= Len(genInput.symbols)
  /\ genDay = 0
  /\ LET d == mulberry32(genS)
     IN  /\ genS' = d.s
         /\ genPrice' = startPrice(d.out)
  /\ genDay' = 1
  /\ UNCHANGED <<genInput, genRun, firstGenerated, genPc, genSymIdx, genMarket, genRow,
                 genDteIdx, genOptions>>
  /\ notGenerator

\* generateMarketData, one turn of the loop over the dates: three draws
\* (dailyReturn, volume, impliedVol) and the record pushed.
GenerateMarketRow ==
  /\ genPc = "generateMarketData"
  /\ genDay >= 1
  /\ genDay <= genInput.endDate
  /\ \E draws \in { drawSeq(genS, 3) } :
     LET price == nextPrice(genPrice, draws[1].out)
     IN  /\ genS' = draws[3].s
         /\ genPrice' = price
         /\ genMarket' = Append(genMarket,
                           [date |-> genDay, symbol |-> genInput.symbols[genSymIdx],
                            price |-> price, volume |-> drawVolume(draws[2].out),
                            impliedVol |-> drawImpliedVol(draws[3].out)])
  /\ genDay' = genDay + 1
  /\ UNCHANGED <<genInput, genRun, firstGenerated, genPc, genSymIdx, genRow, genDteIdx,
                 genOptions>>
  /\ notGenerator

\* generateMarketData, end of the loop over the dates: the next symbol.
NextSymbol ==
  /\ genPc = "generateMarketData"
  /\ genSymIdx <= Len(genInput.symbols)
  /\ genDay > genInput.endDate
  /\ genSymIdx' = genSymIdx + 1
  /\ genDay' = 0
  /\ UNCHANGED <<genInput, genRun, firstGenerated, genPc, genS, genPrice, genMarket,
                 genRow, genDteIdx, genOptions>>
  /\ notGenerator

\* generateMarketData returns and generateOptionData(marketData) is called.
ReturnMarketData ==
  /\ genPc = "generateMarketData"
  /\ genSymIdx > Len(genInput.symbols)
  /\ genPc' = "generateOptionData"
  /\ genRow' = 1
  /\ genDteIdx' = 1
  /\ UNCHANGED <<genInput, genRun, firstGenerated, genS, genSymIdx, genDay, genPrice,
                 genMarket, genOptions>>
  /\ notGenerator

\* generateOptionData, one turn of the loop over daysToExpiry for one market
\* row: a CALL and a PUT per strike, one draw (openInterest) each.  price,
\* delta, gamma, theta and vega are calculateOptionPrice and calculateGreeks
\* of (spot, strike, dte / 365, impliedVol, optionType), which the record keeps.
GenerateOptionRows ==
  /\ genPc = "generateOptionData"
  /\ genRow <= Len(genMarket)
  /\ \E draws \in { drawSeq(genS, 2 * Len(generateStrikes(
                                           Frac(genMarket[genRow].price, 100)))) } :
     LET market  == genMarket[genRow]
         dte     == DaysToExpiry[genDteIdx]
         strikes == generateStrikes(Frac(market.price, 100))
         n       == Len(draws)
         record(j) ==
           LET strike     == strikes[(j + 1) \div 2]
               optionType == IF j % 2 = 1 THEN "CALL" ELSE "PUT"
           IN  [date |-> market.date,
                symbol |-> <<market.symbol, market.date + dte, strike, optionType>>,
                underlying |-> market.symbol, strike |-> strike,
                expiry |-> market.date + dte, optionType |-> optionType,
                spot |-> market.price, dte |-> dte, impliedVol |-> market.impliedVol,
                openInterest |-> drawOpenInterest(draws[j].out)]
     IN  /\ genS' = IF n = 0 THEN genS ELSE draws[n].s
         /\ genOptions' = genOptions \o [j \in 1..n |-> record(j)]
  /\ IF genDteIdx < Len(DaysToExpiry)
     THEN genDteIdx' = genDteIdx + 1 /\ genRow' = genRow
     ELSE genDteIdx' = 1 /\ genRow' = genRow + 1
  /\ UNCHANGED <<genInput, genRun, firstGenerated, genPc, genSymIdx, genDay, genPrice,
                 genMarket>>
  /\ notGenerator

\* generateOptionData returns.
ReturnOptionData ==
  /\ genPc = "generateOptionData"
  /\ genRow > Len(genMarket)
  /\ genPc' = "returned"
  /\ UNCHANGED <<genInput, genRun, firstGenerated, genS, genSymIdx, genDay, genPrice,
                 genMarket, genRow, genDteIdx, genOptions>>
  /\ notGenerator

SecondGenerator_sharedStream ==
  /\ genPc = "returned"
  /\ genRun = 1
  /\ genRun' = 2
  /\ firstGenerated' = [marketData |-> genMarket, optionData |-> genOptions]
  /\ genInput' = genInput
  /\ genPc' = "generateMarketData"
  /\ genS' = genS
  /\ genSymIdx' = 1
  /\ genDay' = 0
  /\ genPrice' = 0
  /\ genMarket' = <<>>
  /\ genRow' = 0
  /\ genDteIdx' = 0
  /\ genOptions' = <<>>
  /\ notGenerator

\* A second instance, new MockDataGenerator(seed), given the same symbols
\* and date range.
SecondGenerator ==
  /\ genPc = "returned"
  /\ genRun = 1
  /\ genRun' = 2
  /\ firstGenerated' = [marketData |-> genMarket, optionData |-> genOptions]
  /\ genInput' = genInput
  /\ genPc' = "generateMarketData"
  /\ genS' = <<0, genInput.seed>>
  /\ genSymIdx' = 1
  /\ genDay' = 0
  /\ genPrice' = 0
  /\ genMarket' = <<>>
  /\ genRow' = 0
  /\ genDteIdx' = 0
  /\ genOptions' = <<>>
  /\ notGenerator

InitGenerator ==
  /\ InitNoBot
  /\ NoBacktest
  /\ genRun = 1
  /\ firstGenerated = Null
  /\ \E input \in GeneratorInputs : NewGenerator(input)

NextGenerator ==
  \/ StartSymbol
  \/ GenerateMarketRow
  \/ NextSymbol
  \/ ReturnMarketData
  \/ GenerateOptionRows
  \/ ReturnOptionData
  \/ SecondGenerator

SpecGenerator == InitGenerator /\ [][NextGenerator]_vars

(***************************************************************************)
(* backtest.ts: the leg builders of BacktestEngine, each called on its own *)
(* with an option surface (specification SpecBuilders).                    *)
(***************************************************************************)
BuilderNames ==
  {"debit_call_vertical", "credit_put_spread", "atm_straddle", "cash_secured_put",
   "crash_hedge"}

\* The engine whose builders are called: its marketData holds US.SPY only.
builderConfig == BacktestConfig(<<"US.SPY">>, <<"atm_straddle">>, 10000, 884)

\* The options of the first date that pass the filter of executeStrategy
\* (21 to 45 days to expiry).
validOptionsOf(underlying) ==
  SelectSeq(optionData(builderConfig, underlying, 1),
            LAMBDA opt : opt.expiry - 1 >= 21 /\ opt.expiry - 1 <= 45)

\* Option surfaces: the generated one, and parts of it without calls, without
\* puts, with a single contract, with one expiry, and with strikes 10 apart.
SurfaceInputs ==
  LET base == validOptionsOf("US.SPY")
  IN  { <<>>,
        base,
        SelectSeq(base, IsCall),
        SelectSeq(base, IsPut),
        << base[1] >>,
        << base[2] >>,
        << base[1], base[2] >>,
        << base[1], base[4] >>,
        << base[1], base[3] >>,
        << base[2], base[4] >>,
        SubSeq(base, 1, 34),
        SelectSeq(SubSeq(base, 1, 34), LAMBDA opt : opt.strike % 10 = 0) }

BuilderArgInputs ==
  { [op |-> name, options |-> options, underlying |-> underlying, date |-> date] :
      name \in BuilderNames, options \in SurfaceInputs,
      underlying \in {"US.SPY", "US.QQQ"}, date \in {1, 9} }

CallBuildDebitCallVertical ==
  /\ arg.op = "debit_call_vertical"
  /\ ret.op = "new"
  /\ ret' = [op |-> arg.op, outcome |-> Returned(buildDebitCallVertical(arg.options))]
  /\ UNCHANGED <<lastRebalanceWeek, rebalanceArg, arg>>
  /\ UNCHANGED <<botVars, btVars, genVars>>

CallBuildCreditPutSpread ==
  /\ arg.op = "credit_put_spread"
  /\ ret.op = "new"
  /\ ret' = [op |-> arg.op, outcome |-> Returned(buildCreditPutSpread(arg.options))]
  /\ UNCHANGED <<lastRebalanceWeek, rebalanceArg, arg>>
  /\ UNCHANGED <<botVars, btVars, genVars>>

CallBuildATMStraddle ==
  /\ arg.op = "atm_straddle"
  /\ ret.op = "new"
  /\ ret' = [op |-> arg.op,
             outcome |-> buildATMStraddle(builderConfig, arg.date, arg.options,
                                          arg.underlying)]
  /\ UNCHANGED <<lastRebalanceWeek, rebalanceArg, arg>>
  /\ UNCHANGED <<botVars, btVars, genVars>>

CallBuildCashSecuredPut ==
  /\ arg.op = "cash_secured_put"
  /\ ret.op = "new"
  /\ \E built \in buildCashSecuredPut(arg.options) :
       ret' = [op |-> arg.op, outcome |-> Returned(built)]
  /\ UNCHANGED <<lastRebalanceWeek, rebalanceArg, arg>>
  /\ UNCHANGED <<botVars, btVars, genVars>>

CallBuildCrashHedge ==
  /\ arg.op = "crash_hedge"
  /\ ret.op = "new"
  /\ ret' = [op |-> arg.op, outcome |-> Returned(buildCrashHedge(arg.options))]
  /\ UNCHANGED <<lastRebalanceWeek, rebalanceArg, arg>>
  /\ UNCHANGED <<botVars, btVars, genVars>>

(***************************************************************************)
(* main-cppi.ts: buildDebitCallVertical and buildCollarPosition, called on *)
(* the quotes getOptionQuotesForExpiry returns for one expiry.             *)
(***************************************************************************)
\* nearest: the first element at the least distance from the target,
\* undefined on an empty array. The metric is given by its value at each
\* index of arr.
nearest(arr, metric, target) ==
  LET d    == [i \in 1..Len(arr) |-> MathAbs(fSub(metric[i], target))]
      best == { i \in 1..Len(arr) : \A j \in 1..Len(arr) : fLe(d[i], d[j]) }
  IN  IF best = {} THEN Null
      ELSE arr[CHOOSE i \in best : \A j \in best : i <= j]

\* A row of get_stock_quote for an option contract.
Quote(opt) ==
  [code |-> opt.symbol, option_type |-> opt.optionType, delta |-> opt.delta,
   strike_price |-> opt.strike]

IsCallQuote(q) == q.option_type = "CALL"

IsPutQuote(q) == q.option_type = "PUT"

absDelta(quotes) == [i \in 1..Len(quotes) |-> MathAbs(quotes[i].delta)]

\* buildDebitCallVertical of main-cppi.ts.
mainBuildDebitCallVertical(quotes, parameters) ==
  LET callQuotes == SelectSeq(quotes, IsCallQuote)
      long       == nearest(callQuotes, absDelta(callQuotes), parameters.targetDelta)
  IN  IF long = Null THEN <<>>
      ELSE LET shortStrike == long.strike_price + parameters.width
               short       == FindFirst(callQuotes,
                                [i \in 1..Len(callQuotes) |->
                                   callQuotes[i].strike_price = shortStrike])
           IN  IF short = Null THEN <<>>
               ELSE << Leg(long.code, "BUY", parameters.contracts),
                       Leg(short.code, "SELL", parameters.contracts) >>

buildCollarPosition(snapshotOk, quotes, parameters) ==
  IF ~snapshotOk THEN <<>>
  ELSE LET callQuotes == SelectSeq(quotes, IsCallQuote)
           putQuotes  == SelectSeq(quotes, IsPutQuote)
           shortCall  == nearest(callQuotes, absDelta(callQuotes), parameters.targetDelta)
           longPut    == nearest(putQuotes, absDelta(putQuotes), parameters.shortDelta)
       IN  (IF shortCall # Null
            THEN << Leg(shortCall.code, "SELL", parameters.contracts) >> ELSE <<>>)
           \o
           (IF longPut # Null
            THEN << Leg(longPut.code, "BUY", parameters.contracts) >> ELSE <<>>)

\* The quotes of one expiry (21 days): all of them, the calls, the puts, a
\* single contract, the strikes 10 apart, and none.
QuoteInputs ==
  LET expiryRows == SubSeq(validOptionsOf("US.SPY"), 1, 34)
      quotes     == [i \in 1..Len(expiryRows) |-> Quote(expiryRows[i])]
  IN  { <<>>,
        quotes,
        SelectSeq(quotes, IsCallQuote),
        SelectSeq(quotes, IsPutQuote),
        << quotes[1] >>,
        << quotes[2] >>,
        SelectSeq(quotes, LAMBDA q : q.strike_price % 10 = 0) }

\* strategy.parameters as generateDefaultConfig writes them, with one or two
\* contracts.
ParameterInputs ==
  { [targetDelta |-> Frac(30, 100), shortDelta |-> Frac(20, 100), width |-> 5,
     contracts |-> n] : n \in {1, 2} }

\* chainOk: get_option_chain returns RET_OK; snapshotOk: get_market_snapshot
\* returns RET_OK.
MainBuilderArgInputs ==
  { [op |-> name, chainOk |-> chainOk, snapshotOk |-> snapshotOk, quotes |-> quotes,
     parameters |-> parameters] :
      name \in {"buildDebitCallVertical", "buildCollarPosition"},
      chainOk \in BOOLEAN, snapshotOk \in BOOLEAN,
      quotes \in QuoteInputs, parameters \in ParameterInputs }

CallMainBuildDebitCallVertical ==
  /\ arg.op = "buildDebitCallVertical"
  /\ ret.op = "new"
  /\ ret' = IF ~arg.chainOk
            THEN [op |-> arg.op, threw |-> TRUE, legs |-> <<>>]
            ELSE [op |-> arg.op, threw |-> FALSE,
                  legs |-> mainBuildDebitCallVertical(arg.quotes, arg.parameters)]
  /\ UNCHANGED <<lastRebalanceWeek, rebalanceArg, arg>>
  /\ UNCHANGED <<botVars, btVars, genVars>>

CallBuildCollarPosition ==
  /\ arg.op = "buildCollarPosition"
  /\ ret.op = "new"
  /\ ret' = IF arg.snapshotOk /\ ~arg.chainOk
            THEN [op |-> arg.op, threw |-> TRUE, legs |-> <<>>]
            ELSE [op |-> arg.op, threw |-> FALSE,
                  legs |-> buildCollarPosition(arg.snapshotOk, arg.quotes,
                                               arg.parameters)]
  /\ UNCHANGED <<lastRebalanceWeek, rebalanceArg, arg>>
  /\ UNCHANGED <<botVars, btVars, genVars>>

InitBuilders ==
  /\ lastRebalanceWeek = 0
  /\ rebalanceArg = 0
  /\ arg \in BuilderArgInputs \cup MainBuilderArgInputs
  /\ ret = [op |-> "new"]
  /\ NoProcess
  /\ NoBacktest
  /\ NoGenerator
  /\ stateFile = Null
  /\ dryRun = TRUE
  /\ enableTradeLogging = TRUE
  /\ strategies = <<>>

NextBuilders ==
  \/ CallBuildDebitCallVertical
  \/ CallBuildCreditPutSpread
  \/ CallBuildATMStraddle
  \/ CallBuildCashSecuredPut
  \/ CallBuildCrashHedge
  \/ CallMainBuildDebitCallVertical
  \/ CallBuildCollarPosition

SpecBuilders == InitBuilders /\ [][NextBuilders]_vars

(***************************************************************************)
(* Properties of the engine (specification Spec).                          *)
(***************************************************************************)
ReturnedMetrics == ret.op = "computeCPPIMetrics"

ReturnedAllocation == ret.op = "computeContributionsAllocation"

TotalShortfall(targetWeights, currentEquities, weeklyDeposit) ==
  SumWeights([s \in Sleeves |->
     MathMax(Zero, fSub(fMul(targetWeights[s], fAdd(currentEquities.total, weeklyDeposit)),
                        currentEquities[s]))])

\* C1: for every metrics record returned by computeCPPIMetrics for a total
\* equity > 0, the five target weights sum to 1.0 within 1e-6 (default
\* configuration).
C1_TargetWeightsSumToOne ==
  (ReturnedMetrics /\ fGt(arg.equities.total, Zero))
    => Near(SumWeights(ret.metrics.targetWeights), One)

\* C2: for target weights with a positive sum, any sleeve equities and a
\* deposit >= 0, the five amounts returned by computeContributionsAllocation
\* sum to the deposit within 1e-6, in both branches.
C2_AllocationSumsToDeposit ==
  (ReturnedAllocation /\ fGt(SumWeights(arg.targetWeights), Zero)
     /\ fGe(arg.deposit, Zero))
    => Near(SumWeights(ret.allocation), arg.deposit)

C2_Witness ==
  /\ ReturnedAllocation
  /\ fGt(arg.deposit, Zero)
  /\ fGt(TotalShortfall(arg.targetWeights, arg.equities, arg.deposit), arg.deposit)
  /\ Near(SumWeights(ret.allocation), arg.deposit)

\* C6: computeCPPIMetrics returns riskyWeight = 0 whenever the total equity is
\* not positive, and riskyWeight is always a number in [0,1].
C6_RiskyWeightGuarded ==
  ReturnedMetrics =>
    /\ fLe(arg.equities.total, Zero) => ret.metrics.riskyWeight = Zero
    /\ fLe(Zero, ret.metrics.riskyWeight)
    /\ fLe(ret.metrics.riskyWeight, One)

\* C7: needsRebalance is false while weeksSinceStart < L + rebalanceEveryWeeks,
\* L being the week passed to the latest executeRebalance call (0 if none);
\* otherwise it is true exactly when some sleeve's |current - target| weight
\* exceeds driftBandAbs.
C7_RebalanceTrigger ==
  ReturnedMetrics =>
    LET m     == ret.metrics
        drift == \E s \in Sleeves :
                   fGt(MathAbs(fSub(m.currentWeights[s], m.targetWeights[s])),
                       config.driftBandAbs)
    IN  IF arg.day \div 7 < rebalanceArg + config.rebalanceEveryWeeks
        THEN m.needsRebalance = FALSE
        ELSE m.needsRebalance = drift

C7_Witness ==
  /\ ReturnedMetrics
  /\ rebalanceArg > 0
  /\ arg.day \div 7 >= rebalanceArg + config.rebalanceEveryWeeks
  /\ ret.metrics.needsRebalance

\* C10: whenever 0 < total equity <= floor (floorPct x investedToDate) the
\* metrics have cushion = 0 and riskyWeight = 0, the debit, credit and straddle
\* targets are 0 and the whole target is in collar and hedge.
C10_AtOrBelowFloor ==
  (ReturnedMetrics /\ fGt(arg.equities.total, Zero)
     /\ fLe(arg.equities.total,
            fMul(config.floorPct, computeInvestedToDate(arg.day))))
    => /\ ret.metrics.cushion = Zero
       /\ ret.metrics.riskyWeight = Zero
       /\ ret.metrics.targetWeights.debit = Zero
       /\ ret.metrics.targetWeights.credit = Zero
       /\ ret.metrics.targetWeights.straddle = Zero
       /\ fAdd(ret.metrics.targetWeights.collar, ret.metrics.targetWeights.hedge) = One

C10_Witness ==
  /\ ReturnedMetrics
  /\ arg.equities.total = fMul(config.floorPct, computeInvestedToDate(arg.day))
  /\ ret.metrics.riskyWeight = Zero
  /\ ret.metrics.targetWeights.collar = Frac(98, 100)


(***************************************************************************)
(* Properties of the bot and of the demo (specification SpecBot).          *)
(***************************************************************************)
SumsToTotal(eq) == Near(eq.total, SumSleeves(eq))

AfterRebalanceCheck == prog = "bot" /\ pc \in {"strategies", "placing", "done", "failed"}

BeforeRebalanceCheck == prog = "bot" /\ pc \in {"connected", "loaded", "allocated"}

\* C5: while config.trading.dryRun is true, no step of a process invokes the
\* broker's place_order, and every call of placeLimit writes the "[DRY]" log
\* line and returns an order id with the prefix 'DRY-'.
C5_DryRunNeverPlacesOrder ==
  [][dryRun =>
       /\ placeOrderCalls' = 0
       /\ \A t \in tradeData' : t.dry_run /\ t.order_id.prefix = "DRY-"
       /\ "placeLimit" \in calls' =>
            /\ dryLog' = dryLog + 1
            /\ lastOrder' # Null
            /\ lastOrder'.order_id.prefix = "DRY-"]_vars

C5_Witness ==
  /\ dryRun
  /\ "placeLimit" \in calls
  /\ dryLog = 2
  /\ lastOrder # Null
  /\ lastOrder.order_id.prefix = "DRY-"
  /\ placeOrderCalls = 0

\* C8: within one engine instance lastRebalanceWeek changes only in a step
\* that calls executeRebalance (steps calling computeCPPIMetrics,
\* computeContributionsAllocation or computeRiskBudget leave it unchanged), and
\* a run of runCPPIStrategy has called executeRebalance exactly once after the
\* rebalance check when the metrics have needsRebalance = true, and never
\* otherwise.
C8_RebalanceWeekFrame ==
  [][/\ (proc' = proc /\ "executeRebalance" \notin calls')
          => lastRebalanceWeek' = lastRebalanceWeek
     /\ BeforeRebalanceCheck' => rebalanceCalls' = 0
     /\ AfterRebalanceCheck' =>
          rebalanceCalls' = (IF portfolioState'.cppiMetrics.needsRebalance THEN 1 ELSE 0)]_vars

C8_Witness ==
  /\ AfterRebalanceCheck
  /\ portfolioState.cppiMetrics.needsRebalance
  /\ rebalanceCalls = 1
  /\ lastRebalanceWeek = portfolioState.cppiMetrics.weeksSinceStart
  /\ lastRebalanceWeek > 0

\* C9: the sleeve equities of the bot's portfolio state and of the demo keep
\* total = debit + credit + straddle + collar + hedge (within 1e-6) after
\* allocateWeeklyDeposit and after every weekly update of the demo loop.
C9_TotalIsSumOfSleeves ==
  /\ portfolioState # Null => SumsToTotal(portfolioState.sleeveEquities)
  /\ mockEq # Null => SumsToTotal(mockEq)

C9_Witness ==
  /\ prog = "bot"
  /\ pc = "allocated"
  /\ "computeContributionsAllocation" \in calls
  /\ fGt(portfolioState.sleeveEquities.total, mockEquities.total)
  /\ SumsToTotal(portfolioState.sleeveEquities)


(***************************************************************************)
(* Properties of the backtest (specifications SpecBacktest, SpecRepeated). *)
(***************************************************************************)
\* C3: starting from a non-negative initial capital, the cash of the backtest
\* ledger is never negative, whatever trades executeTrade has simulated.
C3_CashNeverNegative ==
  (btConfig # Null /\ fGe(btConfig.initialCapital, Zero)) => fGe(cash, Zero)

\* C4: the second execution of runBacktest with the same configuration returns
\* the result of the first: same trades (date, symbol, side, quantity, executed
\* price, strategy), same dailyPnL series, same metrics.
C4_RunsAreIdentical ==
  (btRun = 2 /\ btPc = "returned") => result = firstResult


(***************************************************************************)
(* Further properties of the engine (specification Spec).                  *)
(***************************************************************************)
WeightsFromMetrics ==
  \E day \in DayInputs :
    arg.targetWeights = computeCPPIMetrics(0, arg.equities, day).targetWeights

\* C11: no-sell rule.  For a deposit >= 0, target weights taken from
\* computeCPPIMetrics and equities whose total is the sum of the sleeves,
\* every sleeve is allocated an amount >= 0, and a sleeve already at or above
\* target x (total + deposit) is allocated exactly 0.
C11_NoSellRule ==
  (ReturnedAllocation /\ fGe(arg.deposit, Zero) /\ WeightsFromMetrics
     /\ arg.equities.total = SumSleeves(arg.equities))
    => \A s \in Sleeves :
         /\ fGe(ret.allocation[s], Zero)
         /\ fGe(arg.equities[s],
                fMul(arg.targetWeights[s], fAdd(arg.equities.total, arg.deposit)))
              => ret.allocation[s] = Zero


ReturnedConfigManager == ret.op = "ConfigManager" /\ arg.file # Null

\* C15: the ConfigManager constructor throws for a CPPI risky split (debit +
\* credit + straddle) that does not sum near 1, for a non-positive
\* baseRiskPct fraction, and for a strategy with dteMin >= dteMax.
C15_ConfigErrorsFailFast ==
  ReturnedConfigManager =>
    LET cppi == arg.file.cppi
        splitSum == fAdd(fAdd(cppi.riskySplit.debit, cppi.riskySplit.credit),
                         cppi.riskySplit.straddle)
    IN  (\/ ~Near(splitSum, One)
         \/ \E k \in DOMAIN cppi.baseRiskPct : fLe(cppi.baseRiskPct[k], Zero)
         \/ \E i \in 1..Len(arg.file.strategies) :
              arg.file.strategies[i].parameters.dteMin
                >= arg.file.strategies[i].parameters.dteMax)
        => ret.manager.threw


ReturnedBudget == ret.op = "computeRiskBudget"

\* The base risk fractions and minimum tickets of the default configuration;
\* the collar sleeve has no base risk fraction (0%) and no minimum ticket.
ExpectedRiskPct ==
  [debit |-> Frac(6, 100), credit |-> Frac(2, 100), straddle |-> Frac(4, 100),
   collar |-> Zero, hedge |-> Frac(1, 100)]

ExpectedMinTicket ==
  [debit |-> Num(30), credit |-> Num(100), straddle |-> Num(50), collar |-> Zero,
   hedge |-> Num(5)]

AttemptingTrade == btPc = "strategies" /\ pendingTrades # <<>>

\* C12: a BUY whose gross cost plus commission exceeds the cash is skipped
\* with no effect: cash, every position and the trade log are unchanged, the
\* trade leaves the strategy's list, and the only trade a step can add to the
\* log is the one being attempted, when its funds check passes.
C12_SkippedBuyHasNoEffect ==
  [][/\ (AttemptingTrade /\ insufficientFunds(Head(pendingTrades), randSeed, cash))
          => /\ cash' = cash
             /\ portfolio' = portfolio
             /\ trades' = trades
             /\ pendingTrades' = Tail(pendingTrades)
     /\ Len(trades') > Len(trades)
          => /\ AttemptingTrade
             /\ ~insufficientFunds(Head(pendingTrades), randSeed, cash)
             /\ Len(trades') = Len(trades) + 1
             /\ trades'[Len(trades')].symbol = Head(pendingTrades).symbol
             /\ trades'[Len(trades')].side = Head(pendingTrades).side
             /\ trades'[Len(trades')].date = currentDate]_vars

\* The long call of a debit call vertical has just been skipped for lack of
\* cash: its short call is next, and nothing was bought or logged.
C12_Witness ==
  /\ btPc = "strategies"
  /\ Len(pendingTrades) = 1
  /\ pendingTrades[1].side = "SELL"
  /\ pendingTrades[1].strategy = "debit_call_vertical"
  /\ randSeed # InitialRandSeed
  /\ trades = <<>>
  /\ portfolio = <<>>
  /\ cash = btConfig.initialCapital


(***************************************************************************)
(* Properties of the mock data generator (specification SpecGenerator).    *)
(***************************************************************************)
\* C13: two MockDataGenerator instances created with the same seed and given
\* the same symbols and date range return the same market data and the same
\* option data, record for record in the same order.
C13_GeneratorsAgree ==
  (genRun = 2 /\ genPc = "returned")
    => /\ genMarket = firstGenerated.marketData
       /\ genOptions = firstGenerated.optionData

C13_Witness ==
  /\ genRun = 2
  /\ genPc = "returned"
  /\ Len(genInput.symbols) = 2
  /\ Len(genMarket) = 2 * genInput.endDate
  /\ Len(genMarket) > 0
  /\ Len(genOptions) = 170 * Len(genMarket)
  /\ genOptions[1].openInterest # genOptions[2].openInterest
  /\ genMarket = firstGenerated.marketData
  /\ genOptions = firstGenerated.optionData


(***************************************************************************)
(* Further properties of the live bot.                                     *)
(***************************************************************************)

\* The strategy executeSleeveStrategy is about to run.
CurrentStrategy == strategies[strategyIdx]

\* C17: shouldPlaceStraddleThisWeek(w) is true exactly when w is a multiple
\* of 4, and a call of executeSleeveStrategy for the event_straddles strategy
\* in a run whose weeksSinceStart is not a multiple of 4 returns before the
\* risk budget, the account, any builder or any order: no leg is built, no
\* order is placed or logged, no trade record is written.
C17_StraddleCadenceGate ==
  [][ /\ \A w \in 0..(2 * MaxWeek) :
           shouldPlaceStraddleThisWeek(w) <=> (w % 4 = 0)
      /\ ( /\ pc = "strategies"
           /\ strategyIdx <= Len(strategies)
           /\ CurrentStrategy.id = "event_straddles"
           /\ portfolioState.cppiMetrics.weeksSinceStart % 4 # 0 )
         => /\ pc' = "strategies"
            /\ strategyIdx' = strategyIdx + 1
            /\ legs' = <<>>
            /\ calls' \cap {"computeRiskBudget", "placeLimit"} = {}
            /\ placeOrderCalls' = placeOrderCalls
            /\ dryLog' = dryLog
            /\ tradeData' = tradeData ]_vars

\* The event_straddles strategy has just been skipped in an off week.
C17_Witness ==
  /\ pc = "strategies"
  /\ strategyIdx > 1
  /\ strategies[strategyIdx - 1].id = "event_straddles"
  /\ portfolioState.cppiMetrics.weeksSinceStart % 4 # 0
  /\ calls = {"shouldPlaceStraddleThisWeek"}
  /\ legs = <<>>

(***************************************************************************)
(* Properties of the backtester's leg builders (specification              *)
(* SpecBuilders).                                                          *)
(***************************************************************************)
ReturnedBuilder == ret.op \in BuilderNames

\* C18: every leg builder of the backtester, on any option surface (without
\* calls, without puts, with a single contract), returns a list of legs and
\* raises no exception.
C18_BuildersNeverThrow ==
  ReturnedBuilder => ~ret.outcome.threw

\* The contract a leg names: its code or symbol is
\* <<underlying, expiry, strike, optionType>>.
Contract(c) == [expiry |-> c[2], strike |-> c[3], optionType |-> c[4]]

\* The calls the debit call vertical chose from, and the least distance of
\* their |delta| from the target.
CallsOffered ==
  IF arg.op = "debit_call_vertical" THEN SelectSeq(arg.options, IsCall)
  ELSE [i \in 1..Len(SelectSeq(arg.quotes, IsCallQuote)) |->
          [symbol |-> SelectSeq(arg.quotes, IsCallQuote)[i].code,
           delta  |-> SelectSeq(arg.quotes, IsCallQuote)[i].delta]]

IsNearestDelta(code, target) ==
  \E i \in 1..Len(CallsOffered) :
    /\ CallsOffered[i].symbol = code
    /\ \A j \in 1..Len(CallsOffered) :
         fLe(MathAbs(fSub(MathAbs(CallsOffered[i].delta), target)),
             MathAbs(fSub(MathAbs(CallsOffered[j].delta), target)))

\* The vertical as (long code, long quantity, short code, short quantity).
IsDebitCallVertical(long, longQty, short, shortQty, target, width) ==
  /\ longQty = shortQty
  /\ IsNearestDelta(long, target)
  /\ Contract(long).optionType = "CALL"
  /\ Contract(short).optionType = "CALL"
  /\ short # long
  /\ Contract(short).expiry = Contract(long).expiry
  /\ Contract(short).strike = Contract(long).strike + width

\* C19: a debit call vertical, built by the live builder or by the
\* backtester's, is empty or exactly two legs of equal quantity: a BUY of the
\* call whose |delta| is nearest the target and a SELL of another call of the
\* same expiry at the long strike plus the width (5 in the backtester).
C19_DebitCallVertical ==
  /\ (ret.op = "debit_call_vertical") =>
       LET t == ret.outcome.trades
       IN  \/ t = <<>>
           \/ /\ Len(t) = 2
              /\ t[1].side = "BUY"
              /\ t[2].side = "SELL"
              /\ IsDebitCallVertical(t[1].symbol, t[1].quantity, t[2].symbol,
                                     t[2].quantity, Frac(30, 100), 5)
  /\ (ret.op = "buildDebitCallVertical" /\ ~ret.threw) =>
       \/ ret.legs = <<>>
       \/ /\ Len(ret.legs) = 2
          /\ ret.legs[1].side = "BUY"
          /\ ret.legs[2].side = "SELL"
          /\ IsDebitCallVertical(ret.legs[1].code, ret.legs[1].qty, ret.legs[2].code,
                                 ret.legs[2].qty, arg.parameters.targetDelta,
                                 arg.parameters.width)

\* C20: buildCollarPosition returns no leg or the complete pair, a SELL of a
\* call and a BUY of a put of equal quantity: never the short call without
\* the long put, nor the put alone.
C20_CollarIsCompletePair ==
  (ret.op = "buildCollarPosition" /\ ~ret.threw) =>
    \/ ret.legs = <<>>
    \/ /\ Len(ret.legs) = 2
       /\ ret.legs[1].side = "SELL"
       /\ Contract(ret.legs[1].code).optionType = "CALL"
       /\ ret.legs[2].side = "BUY"
       /\ Contract(ret.legs[2].code).optionType = "PUT"
       /\ ret.legs[1].qty = ret.legs[2].qty

(***************************************************************************)
(* Properties of the backtest ledger (specification SpecBacktest).         *)
(***************************************************************************)
\* The step is the valuation at the head of a date (BeginDate).
ValuedAtDayStart == btPc = "dates" /\ btPc' = "strategies"

\* The positions of the ledger whose expiry is strictly before the date.
ExpiredBy(positions, date) == { s \in DOMAIN positions : s[2] < date }

\* quantity x 100 x the intrinsic value of position s at the underlying's
\* price on the expiry date, 0 when the market data has no row for that date.
IntrinsicWorth(s, quantity) ==
  LET rows == marketRows(btConfig, s[1])
      hit  == { i \in 1..Len(rows) : rows[i].date = s[2] }
      spot == rows[CHOOSE i \in hit : TRUE].price
      K    == Num(s[3])
  IN  IF hit = {} THEN Zero
      ELSE fMul(fMul(IF s[4] = "CALL" THEN MathMax(Zero, fSub(spot, K))
                     ELSE MathMax(Zero, fSub(K, spot)),
                     Num(quantity)), Num(100))

\* quantity x 100 x the price of today's quote of position s, 0 without one.
QuoteWorth(s, quantity, date) ==
  LET chain == optionData(btConfig, s[1], date)
      hit   == { i \in 1..Len(chain) : chain[i].symbol = s }
  IN  IF hit = {} THEN Zero
      ELSE fMul(fMul(chain[CHOOSE i \in hit : TRUE].price, Num(quantity)), Num(100))

\* C21: the first valuation at a date strictly after a position's expiry
\* counts quantity x 100 x its intrinsic value at the underlying's price of
\* the expiry date and removes the position; no valuation leaves an expired
\* position in the ledger, so later valuations exclude it, and with no
\* position left the value is the cash alone.
C21_ExpiryRealisedOnce ==
  [][ /\ ValuedAtDayStart =>
           LET gone == ExpiredBy(portfolio, currentDate')
               kept == DOMAIN portfolio \ gone
           IN  /\ DOMAIN portfolio' = kept
               /\ \A s \in kept : portfolio'[s] = portfolio[s]
               /\ dayStartValue' =
                    fAdd(cash,
                         fAdd(SumOver(gone, [s \in gone |->
                                               IntrinsicWorth(s, portfolio[s])]),
                              SumOver(kept, [s \in kept |->
                                               QuoteWorth(s, portfolio[s], currentDate')])))
               /\ (DOMAIN portfolio' = {} /\ gone = {}) => dayStartValue' = cash
      /\ ExpiredBy(portfolio', currentDate') = {}
    ]_vars

\* A bought option has expired in the money the day before: the valuation of
\* the date counted its intrinsic value and the ledger no longer holds it.
C21_Witness ==
  /\ btPc = "strategies"
  /\ btStrategyIdx = 1
  /\ \E i \in 1..Len(trades) :
       /\ trades[i].side = "BUY"
       /\ trades[i].symbol[2] = currentDate - 1
       /\ trades[i].symbol \notin DOMAIN portfolio
       /\ fGt(IntrinsicWorth(trades[i].symbol, trades[i].quantity), Zero)
  /\ fGt(dayStartValue, cash)

\* The quantity the ledger holds of a symbol (this.portfolio.get(symbol) || 0).
Position(positions, symbol) ==
  IF symbol \in DOMAIN positions THEN positions[symbol] ELSE 0

\* The step executes a trade: a record is appended to the trade log.
TradeExecuted == Len(trades') = Len(trades) + 1

LastTrade == trades[Len(trades)]

\* C22: an executed trade moves the position of its symbol by +quantity for a
\* BUY and -quantity for a SELL and leaves every other position as it was;
\* the ledger never stores a symbol with quantity 0.
C22_PositionUpdate ==
  [][ /\ TradeExecuted =>
           LET trade == trades'[Len(trades')]
           IN  /\ Position(portfolio', trade.symbol) =
                    Position(portfolio, trade.symbol)
                      + (IF trade.side = "BUY" THEN trade.quantity ELSE -trade.quantity)
               /\ \A s \in (DOMAIN portfolio \cup DOMAIN portfolio') \ {trade.symbol} :
                    Position(portfolio', s) = Position(portfolio, s)
      /\ \A s \in DOMAIN portfolio' : portfolio'[s] # 0
    ]_vars

\* A BUY has just closed a short position: the symbol left the ledger.
C22_Witness ==
  /\ trades # <<>>
  /\ LastTrade.side = "BUY"
  /\ LastTrade.symbol \notin DOMAIN portfolio
  /\ LastTrade.date = currentDate
  /\ \E i \in 1..(Len(trades) - 1) :
       /\ trades[i].symbol = LastTrade.symbol
       /\ trades[i].side = "SELL"
  /\ \E s \in DOMAIN portfolio : portfolio[s] < 0

\* C23: slippage goes against the trader. For an executed trade quoted at
\* 0.01 or more the recorded price is at least 0.01, at least the quote on a
\* BUY and at most the quote on a SELL, and lies 0.5% to 2% of the quote
\* away from it (a SELL is floored at 0.01).
C23_SlippageAdversarial ==
  [][ TradeExecuted =>
        LET quoted   == Head(pendingTrades).price
            executed == trades'[Len(trades')].price
            side     == trades'[Len(trades')].side
        IN  fGe(quoted, Frac(1, 100)) =>
              /\ fGe(executed, Frac(1, 100))
              /\ side = "BUY" =>
                   /\ fGe(executed, quoted)
                   /\ fGe(executed, fMul(quoted, Frac(1005, 1000)))
                   /\ fLe(executed, fMul(quoted, Frac(102, 100)))
              /\ side = "SELL" =>
                   /\ fLe(executed, quoted)
                   /\ fGe(executed, MathMax(Frac(1, 100), fMul(quoted, Frac(98, 100))))
                   /\ fLe(executed, MathMax(Frac(1, 100), fMul(quoted, Frac(995, 1000))))
    ]_vars

\* The trade log holds a BUY and a SELL, each executed away from 0.01.
C23_Witness ==
  /\ \E i \in 1..Len(trades) :
       trades[i].side = "BUY" /\ fGt(trades[i].price, Frac(1, 100))
  /\ \E i \in 1..Len(trades) :
       trades[i].side = "SELL" /\ fGt(trades[i].price, Frac(1, 100))

\* The step closes a date (EndDate): a row is appended to dailyPnL.
DayClosed == Len(dailyPnL') = Len(dailyPnL) + 1

\* C24: two valuations on the same date with no trade between them return
\* the same value: a date on which no trade is executed has daily P&L 0.
C24_ValuationIdempotent ==
  [][ (DayClosed /\ \A i \in 1..Len(trades) : trades[i].date # currentDate)
        => dailyPnL'[Len(dailyPnL')].pnl = Zero ]_vars

\* C25: on every trading date initialCapital + cumPnL recorded for the date
\* equals the end-of-day value of the ledger (dayEndValue, which is
\* dayStartValue plus the date's pnl); so does the final equity of
\* calculateMetrics.
C25_CumPnLTracksValue ==
  [][ DayClosed =>
        fAdd(btConfig.initialCapital, dailyPnL'[Len(dailyPnL')].cumPnL)
          = fAdd(dayStartValue, dailyPnL'[Len(dailyPnL')].pnl) ]_vars

\* The option surface of the date has a quote with this symbol.
Quoted(s, date) ==
  \E q \in Range(optionData(btConfig, s[1], date)) : q.symbol = s

\* C26: a position opened on date d with expiry e, 21 <= e - d <= 45, has a
\* quote with its symbol in the surface of every later date up to e inside
\* the run, so no open, unexpired position is valued without a quote.
C26_OpenPositionsQuoted ==
  \A i \in 1..Len(trades) :
    LET s == trades[i].symbol
        d == trades[i].date
    IN  ( /\ btPc = "strategies"
          /\ s \in DOMAIN portfolio
          /\ 21 <= s[2] - d /\ s[2] - d <= 45
          /\ d < currentDate /\ currentDate <= s[2] )
          => Quoted(s, currentDate)

(***************************************************************************)
(* Properties of successive runs of the bot (specification SpecBot).       *)
(***************************************************************************)

\* The process runs its strategies one week after the run that saved
\* portfolio_state.json (a seeded file has lastUpdateTime 0).
WeekAfterPreviousRun ==
  /\ prog = "bot"
  /\ pc = "strategies"
  /\ stateFile # Null
  /\ stateFile.lastUpdateTime > 0
  /\ now - stateFile.lastUpdateTime = 7

\* C27: across successive weekly runs weeksSinceStart advances with the
\* weeks elapsed: a run one week after the previous one uses the previous
\* run's weeksSinceStart plus one, so the gate of event_straddles is not
\* open in both of two consecutive weekly runs.
C27_WeeksAdvanceAcrossRuns ==
  WeekAfterPreviousRun =>
    /\ portfolioState.cppiMetrics.weeksSinceStart
         = stateFile.cppiMetrics.weeksSinceStart + 1
    /\ ~( /\ shouldPlaceStraddleThisWeek(stateFile.cppiMetrics.weeksSinceStart)
          /\ shouldPlaceStraddleThisWeek(portfolioState.cppiMetrics.weeksSinceStart) )

\* What a trade record moved into the cash: -(price x quantity x 100 +
\* commission) for a BUY, +(price x quantity x 100 - commission) for a SELL.
CashMoved(t) ==
  LET notional == fMul(fMul(t.price, Num(t.quantity)), Num(100))
  IN  IF t.side = "BUY" THEN fNeg(fAdd(notional, t.commission))
      ELSE fSub(notional, t.commission)

RECURSIVE CashAfter(_, _)
CashAfter(start, ts) ==
  IF ts = <<>> THEN start
  ELSE CashAfter(fAdd(start, CashMoved(Head(ts))), Tail(ts))

\* C28: in every state of the ledger, cash is initialCapital minus what the
\* recorded BUY trades cost plus what the recorded SELL trades brought in, at
\* the executed prices of the records; nothing but an executed trade
\* (no valuation, no expiry removal) changes cash.
C28_CashMatchesTrades ==
  cash = CashAfter(btConfig.initialCapital, trades)

\* Both sides have traded and a position has expired out of the ledger.
C28_Witness ==
  /\ \E i \in 1..Len(trades) : trades[i].side = "BUY"
  /\ \E i \in 1..Len(trades) : trades[i].side = "SELL"
  /\ \E i \in 1..Len(trades) :
       /\ trades[i].symbol[2] < currentDate
       /\ trades[i].symbol \notin DOMAIN portfolio
  /\ cash # btConfig.initialCapital

\* executeSleeveStrategy has just sized the legs it is about to submit.
LegsSized == pc = "placing" /\ "computeRiskBudget" \in calls

\* C29: after the risk-budget sizing the total notional of the legs to
\* submit (sum of (limit or 100) x quantity x 100) does not exceed the
\* sleeve's risk budget, and every leg has quantity at least 1.
C29_SizedWithinBudget ==
  LegsSized =>
    /\ fLe(Num(TotalNotional(legs)), riskBudget)
    /\ \A i \in 1..Len(legs) : legs[i].qty >= 1

\* runBacktest has left its loop over a configuration without trading dates.
EmptyRunEnded == Len(tradingDates(btConfig)) = 0 /\ btPc # "dates"

\* C30: runBacktest on a configuration that yields no trading dates ends
\* normally and returns a result with empty trades and empty dailyPnL; it
\* raises no error.
C30_EmptyRunReturns ==
  EmptyRunEnded =>
    /\ btPc = "returned"
    /\ result # Null
    /\ result.trades = <<>>
    /\ result.dailyPnL = <<>>

=============================================================================
